---- MODULE Spec2Model ----
(***************************************************************************)
(* Session orchestration and interaction correlation of the Slack-Claude   *)
(* bridge (SDK variant): the per-channel session registry and its queries  *)
(* (sdkSession), the pending approval / question maps (toolApproval) and   *)
(* the chat command and button handlers that drive them (index).           *)
(***************************************************************************)
EXTENDS Integers, Sequences, FiniteSets, TLC

VARIABLES
    sessions,            \* sessions map: channel -> UserSession (NoSession = no entry)
    queries,             \* the sendMessage invocations (one SDK query each)
    channelWorkingDirs,  \* channelWorkingDirs map: channel -> directory ("" = unset)
    calls,               \* the canUseTool invocations of the queries
    pendingApprovals,    \* pendingApprovals map: request id -> PendingApproval
    pendingQuestions,    \* pendingQuestions map: request id -> PendingQuestion
    buttons,             \* the chat messages that carry buttons: request id -> tool ("" = none)
    autoApproveTools,    \* config.autoApproveTools
    permissionModes,     \* permissionModes map: channel -> mode ("" = no entry)
    nextRid,             \* number of request ids handed out by crypto.randomUUID()
    rawOutput,           \* terminal variant: the pane text handed to the cleaning pass
    cleanedOutput,       \* terminal variant: the text the cleaning passes have produced
    passes,              \* terminal variant: number of cleaning passes applied
    surface,             \* the channel on Slack: its messages and uploaded files
    now,                 \* Date.now()
    currentMessageTs,    \* onMessage's currentMessageTs (0 = null)
    accumulatedContent,  \* onMessage's accumulatedContent (its length)
    lastRender,          \* the last invocation of updateSlackMessage
    sessionObjects,      \* terminal variant: the Session objects created
    terminalSessions,    \* terminal variant: sessions[userId] (0 = no entry)
    tmux,                \* the tmux session claude_<userId>, its pane and the spawns
    slackCalls,          \* terminal variant: updateSlack's Slack calls in flight
    creating             \* terminal variant: the getOrCreateSession invocations

vars == <<sessions, queries, channelWorkingDirs, calls, pendingApprovals,
          pendingQuestions, buttons, autoApproveTools, permissionModes, nextRid,
          rawOutput, cleanedOutput, passes,
          surface, now, currentMessageTs, accumulatedContent, lastRender,
          sessionObjects, terminalSessions, tmux, slackCalls, creating>>

----------------------------------------------------------------------------
(* Bounds of the model *)

MaxQueries == 3
MaxCalls == 2
MaxApprovalQueries == 2
MaxResumeQueries == 2

(* The universe the inputs are drawn from *)

Channels == {"C1", "C2"}
Dirs == {"/work"}
NoDir == ""
MissingDir == "/does/not/exist"
DefaultProjectPath == "/default"
AskTool == "AskUserQuestion"
PlanTool == "ExitPlanMode"
ApprovalTools == {"Read", "Bash", PlanTool}
Colon == ":"
QuestionOptions == << <<"A">>, <<"B", Colon, "C">> >>
QuestionKeys == {"h1", "h2"}
Feedbacks == {"", "fb"}
MaxQuestions == 2
RequestIds == 1..(MaxCalls * MaxQuestions)

(* input.questions of an AskUserQuestion call, each question given by the key its
   answer is stored under (`q.header || q.question`); the first key is named h1 *)
QuestionLists(maxq) ==
    { l \in UNION { [1..m -> QuestionKeys] : m \in 1..maxq } : l[1] = "h1" }
Usages == { [inputTokens |-> 2, outputTokens |-> 1, cacheReadTokens |-> 1, cacheWriteTokens |-> 0] }

ZeroUsage == [inputTokens |-> 0, outputTokens |-> 0, cacheReadTokens |-> 0, cacheWriteTokens |-> 0]

DefaultAutoApproveTools == {"Read", "Glob", "Grep"}
NoMode == ""
ModeArgs == {"yolo", "nonsense"}

----------------------------------------------------------------------------
(* Helpers *)

RemoveKey(f, k) == [ x \in DOMAIN f \ {k} |-> f[x] ]

PutKey(f, k, v) == [ x \in DOMAIN f \cup {k} |-> IF x = k THEN v ELSE f[x] ]

(* The parts of the session state that sdkSession's functions touch *)
Store == [sessions |-> sessions, queries |-> queries, permissionModes |-> permissionModes]

SetStore(st) ==
    /\ sessions' = st.sessions
    /\ queries' = st.queries
    /\ permissionModes' = st.permissionModes

(* A query is in flight from sendMessage's query() call until its loop ends *)
Running(q) == queries[q].status = "running"

(* abortController.abort(), queryInstance.interrupt() or queryInstance.close() reached it *)
Signalled(qr) == qr.aborted \/ qr.interrupted \/ qr.closed

----------------------------------------------------------------------------
(* sdkSession: the session registry *)

(* No entry in the sessions map *)
NoSession ==
    [obj |-> 0, sessionId |-> 0, abortController |-> 0, queryInstance |-> 0,
     isActive |-> FALSE, tokenUsage |-> ZeroUsage]

(* The UserSession literal of getOrCreateSession; obj names the object, so that a
   closure holding an object that left the map can be told from the map's entry *)
NewSession(o) == [NoSession EXCEPT !.obj = o]

(* getOrCreateSession(sessionKey), called by the sendMessage that starts query q *)
getOrCreateSession(st, c, q) ==
    IF st.sessions[c].obj # 0 THEN st
    ELSE [st EXCEPT !.sessions[c] = NewSession(q)]

(* A finished query: what its signals and stream did no longer matters *)
DoneQuery(c) ==
    [chan |-> c, sess |-> 0, resume |-> 0, cwd |-> "", mode |-> NoMode,
     aborted |-> FALSE, interrupted |-> FALSE, closed |-> FALSE,
     status |-> "done", init |-> FALSE, result |-> FALSE, thinkingTs |-> 0]

(* The query() call of sendMessage with its sdkOptions *)
NewQuery(c, o, resume, cwd, permissionMode) ==
    [DoneQuery(c) EXCEPT !.sess = o, !.resume = resume, !.cwd = cwd,
                         !.mode = permissionMode, !.status = "running"]

(* getUserPermissionMode(sessionKey): `permissionModes.get(sessionKey) || 'default'` *)
getUserPermissionMode(st, c) ==
    IF st.permissionModes[c] # NoMode THEN st.permissionModes[c] ELSE "default"

(* The queries of channel c that are in flight in store st *)
InFlight(st, c) ==
    { q \in 1..Len(st.queries) : st.queries[q].chan = c /\ st.queries[q].status = "running" }

(* A setter that also switches the queries in flight to the new mode *)
setUserPermissionModeLive(st, c, mode) ==
    [st EXCEPT !.permissionModes[c] = mode,
               !.queries = [q \in 1..Len(st.queries) |->
                               IF q \in InFlight(st, c)
                               THEN [st.queries[q] EXCEPT !.mode = mode]
                               ELSE st.queries[q]]]

(* setUserPermissionMode(sessionKey, mode) *)
setUserPermissionMode(st, c, mode) == [st EXCEPT !.permissionModes[c] = mode]

(* app.message "mode <arg>": the mode an argument names ("" = unknown mode) *)
parseMode(modeArg) ==
    IF modeArg \in {"default", "normal"} THEN "default"
    ELSE IF modeArg \in {"accept", "acceptedits", "edit", "edits"} THEN "acceptEdits"
    ELSE IF modeArg \in {"bypass", "bypasspermissions", "auto", "yolo"} THEN "bypassPermissions"
    ELSE NoMode

(* app.message "mode <arg>": no argument shows the mode, an unknown one is answered
   with an error, a known one is set *)
onMode(st, c, modeArg) ==
    IF modeArg = "" \/ parseMode(modeArg) = NoMode THEN st
    ELSE setUserPermissionMode(st, c, parseMode(modeArg))

Live(qs, q) == q # 0 /\ qs[q].status = "running"

(* abortController.abort() on the controller created for query q (0 = null) *)
Abort(qs, q) == IF Live(qs, q) THEN [qs EXCEPT ![q].aborted = TRUE] ELSE qs

(* queryInstance.interrupt() *)
Interrupt(qs, q) == IF Live(qs, q) THEN [qs EXCEPT ![q].interrupted = TRUE] ELSE qs

(* queryInstance.close() *)
Close(qs, q) == IF Live(qs, q) THEN [qs EXCEPT ![q].closed = TRUE] ELSE qs

(* sendMessage(sessionKey, ...) up to its first await: the session is looked up or
   created, a still active query is aborted, a new controller and query are made *)
sendMessage(st, c, cwd) ==
    LET q == Len(st.queries) + 1
        s1 == getOrCreateSession(st, c, q)
        s == s1.sessions[c]
        qs1 == IF s.isActive /\ s.abortController # 0
               THEN Abort(s1.queries, s.abortController)
               ELSE s1.queries
    IN [s1 EXCEPT !.queries = Append(qs1, NewQuery(c, s.obj, s.sessionId, cwd,
                                                     getUserPermissionMode(st, c))),
                  !.sessions[c] = [s EXCEPT !.abortController = q,
                                            !.isActive = TRUE,
                                            !.queryInstance = q]]

(* An interrupt that forgets the conversation, as closeSession does *)
interruptSessionForgetting(st, c) ==
    LET s == st.sessions[c] IN
    IF s.obj # 0 /\ s.isActive
    THEN [st EXCEPT !.queries = Abort(Interrupt(st.queries, s.queryInstance), s.abortController),
                    !.sessions[c] = [s EXCEPT !.isActive = FALSE, !.queryInstance = 0,
                                              !.sessionId = 0]]
    ELSE st

(* interruptSession(sessionKey) *)
interruptSession(st, c) ==
    LET s == st.sessions[c] IN
    IF s.obj # 0 /\ s.isActive
    THEN [st EXCEPT !.queries = Abort(Interrupt(st.queries, s.queryInstance), s.abortController),
                    !.sessions[c] = [s EXCEPT !.isActive = FALSE, !.queryInstance = 0]]
    ELSE st

interruptSessionRet(st, c) == st.sessions[c].obj # 0 /\ st.sessions[c].isActive

(* closeSession(sessionKey) *)
closeSession(st, c) ==
    LET s == st.sessions[c] IN
    IF s.obj # 0
    THEN LET qs1 == Close(st.queries, s.queryInstance)
             qs2 == IF s.abortController # 0 /\ s.isActive
                    THEN Abort(qs1, s.abortController) ELSE qs1
         IN [st EXCEPT !.queries = qs2,
                       !.sessions[c] = [s EXCEPT !.isActive = FALSE, !.queryInstance = 0,
                                                 !.sessionId = 0]]
    ELSE st

(* clearSession(sessionKey) *)
clearSession(st, c) ==
    LET s == st.sessions[c] IN
    IF s.obj # 0
    THEN LET qs1 == Close(st.queries, s.queryInstance)
             qs2 == IF s.abortController # 0 /\ s.isActive
                    THEN Abort(qs1, s.abortController) ELSE qs1
         IN [st EXCEPT !.queries = qs2, !.sessions[c] = NoSession]
    ELSE st

(* app.message "exit": closeSession(channelId) and then clearSession(channelId) *)
exitSession(st, c) == clearSession(closeSession(st, c), c)

AddUsage(t, u) ==
    [inputTokens |-> t.inputTokens + u.inputTokens,
     outputTokens |-> t.outputTokens + u.outputTokens,
     cacheReadTokens |-> t.cacheReadTokens + u.cacheReadTokens,
     cacheWriteTokens |-> t.cacheWriteTokens + u.cacheWriteTokens]

(* updateTokenUsage(sessionKey, usage): adds to the session registered for c now *)
updateTokenUsage(st, c, u) ==
    IF st.sessions[c].obj # 0
    THEN [st EXCEPT !.sessions[c].tokenUsage = AddUsage(@, u)] ELSE st

(* The `session` variable of the sendMessage that runs query q still is the entry
   of the sessions map: a write through it to an object that clearSession has
   removed reaches nothing the program reads again *)
Registered(st, q) ==
    st.sessions[st.queries[q].chan].obj = st.queries[q].sess

(* sendMessage, `session.sessionId = msg.session_id` *)
captureSessionId(st, q, sid) ==
    LET st1 == [st EXCEPT !.queries[q].init = TRUE] IN
    IF Registered(st, q)
    THEN [st1 EXCEPT !.sessions[st.queries[q].chan].sessionId = sid] ELSE st1

(* sendMessage, after the loop or in the catch block:
   `session.isActive = false; session.queryInstance = null` *)
markIdle(st, q) ==
    LET st1 == [st EXCEPT !.queries[q] = DoneQuery(st.queries[q].chan)] IN
    IF Registered(st, q)
    THEN [st1 EXCEPT !.sessions[st.queries[q].chan].isActive = FALSE,
                     !.sessions[st.queries[q].chan].queryInstance = 0]
    ELSE st1

(* setChannelWorkingDir(channelId, path) *)
setChannelWorkingDir(dirs, c, d) == [dirs EXCEPT ![c] = d]

(* The messages the cd command answers with *)
DirectoryNotFound == "Directory not found"
DirectoryChanged == "Working directory changed to"

(* A cd handler that clears the session before it looks at the path *)
onCdClearingFirst(st, dirs, c, d) ==
    IF d \notin Dirs
    THEN [store |-> clearSession(st, c), dirs |-> dirs, posts |-> <<DirectoryNotFound>>]
    ELSE [store |-> clearSession(st, c), dirs |-> setChannelWorkingDir(dirs, c, d),
          posts |-> <<DirectoryChanged>>]

(* app.message "cd <path>" with a path given: the session store and the working
   directories it leaves, and the messages it posts; fs.existsSync holds of the
   directories in Dirs *)
onCd(st, dirs, c, d) ==
    IF d \notin Dirs
    THEN [store |-> st, dirs |-> dirs, posts |-> <<DirectoryNotFound>>]
    ELSE [store |-> clearSession(st, c), dirs |-> setChannelWorkingDir(dirs, c, d),
          posts |-> <<DirectoryChanged>>]

(* getChannelWorkingDir(channelId) *)
getChannelWorkingDir(c) ==
    IF channelWorkingDirs[c] # NoDir THEN channelWorkingDirs[c] ELSE DefaultProjectPath

----------------------------------------------------------------------------
(* toolApproval: the pending maps, and the canUseTool callback of sendMessage *)

(* The part of the state that the approval and question functions touch; resolved
   counts, per request id, the calls of its promise's resolve made by the handlers
   applied to this store *)
AStore == [pendingApprovals |-> pendingApprovals, pendingQuestions |-> pendingQuestions,
           calls |-> calls, buttons |-> buttons, nextRid |-> nextRid,
           resolved |-> [r \in RequestIds |-> 0]]

(* The values an approval promise resolves with: true, false, {denied: true, feedback} *)
DecTrue == [t |-> "true", feedback |-> ""]
DecFalse == [t |-> "false", feedback |-> ""]
DecDenied(fb) == [t |-> "denied", feedback |-> fb]
NoDecision == [t |-> "", feedback |-> ""]

NoResult == [behavior |-> "", message |-> "", answers |-> <<>>]
Allow == [behavior |-> "allow", message |-> "", answers |-> <<>>]
AllowAnswers(a) == [behavior |-> "allow", message |-> "", answers |-> a]
Deny(m) == [behavior |-> "deny", message |-> m, answers |-> <<>>]

(* A mapping that denies on false only *)
approvalResultLenient(d) ==
    IF d.t = "false" THEN Deny("User denied the tool use") ELSE Allow

(* canUseTool: the mapping of onToolApproval's result to the SDK's permission result *)
approvalResult(d) ==
    IF d.t = "true" THEN Allow
    ELSE IF d.t = "false" THEN Deny("User denied the tool use")
    ELSE IF d.t = "denied"
         THEN (IF d.feedback # ""
               THEN Deny("User denied with feedback: " \o d.feedback)
               ELSE Deny("User denied the tool use"))
    ELSE Deny("User denied the tool use")

(* A canUseTool invocation that has returned and whose result the SDK has taken *)
DoneCall ==
    [q |-> 0, tool |-> "", pc |-> "done", rid |-> 0, qs |-> <<>>, qi |-> 0,
     answers |-> <<>>, result |-> NoResult, via |-> "", decision |-> NoDecision]

NewCall(q, tool, questions) ==
    [DoneCall EXCEPT !.q = q, !.tool = tool, !.pc = "start", !.qs = questions]

(* The calls that return their permission result to the SDK in a store the handlers
   produced, each with the way it came to its result *)
Returning(cs) == { k \in 1..Len(cs) : cs[k].pc = "done" /\ cs[k].via # "" }

ReturnedOf(cs) ==
    { [tool |-> cs[k].tool, rid |-> cs[k].rid, via |-> cs[k].via,
       decision |-> cs[k].decision, result |-> cs[k].result] : k \in Returning(cs) }

SetAStore(as) ==
    /\ pendingApprovals' = as.pendingApprovals
    /\ pendingQuestions' = as.pendingQuestions
    /\ calls' = [k \in 1..Len(as.calls) |->
                     IF as.calls[k].pc = "done" THEN DoneCall ELSE as.calls[k]]
    /\ buttons' = as.buttons
    /\ nextRid' = as.nextRid

(* The call suspended on the promise of request rid (0 = none) *)
WaitingCall(cs, rid) ==
    LET ks == { k \in 1..Len(cs) : cs[k].rid = rid /\ cs[k].pc = "waiting" }
    IN IF ks = {} THEN 0 ELSE CHOOSE k \in ks : TRUE

(* canUseTool's AskUserQuestion loop from question qi on: the next question is
   handed to requestUserQuestion, which starts posting it under a fresh request id;
   after the last one the call returns allow with the answers *)
askNext(as, k) ==
    LET cl == as.calls[k] IN
    IF cl.qi < Len(cl.qs)
    THEN [as EXCEPT !.calls[k] = [cl EXCEPT !.pc = "posting", !.rid = as.nextRid + 1],
                    !.nextRid = as.nextRid + 1]
    ELSE [as EXCEPT !.calls[k] = [cl EXCEPT !.pc = "done", !.via = "answers",
                                            !.result = AllowAnswers(cl.answers)]]

(* The continuation of canUseTool after `await callbacks.onUserQuestion(...)`:
   `answers[q.header || q.question] = answer`, then the loop goes on *)
questionAnswered(as, k, answer) ==
    LET cl == as.calls[k] IN
    askNext([as EXCEPT !.calls[k] =
                 [cl EXCEPT !.answers = PutKey(cl.answers, cl.qs[cl.qi + 1], answer),
                            !.qi = cl.qi + 1]], k)

(* A resolve that leaves the entry in the map *)
approvalResolveKeeping(as, rid, d, by) ==
    LET k == WaitingCall(as.calls, rid)
        as1 == [as EXCEPT !.resolved[rid] = @ + 1]
    IN IF k = 0 THEN as1
       ELSE [as1 EXCEPT !.calls[k] = [@ EXCEPT !.pc = "done", !.via = by, !.decision = d,
                                               !.result = approvalResult(d)]]

(* PendingApproval.resolve: the entry is deleted and the promise resolved; the
   promise settles once, so the waiting canUseTool call continues only then *)
approvalResolve(as, rid, d, by) ==
    LET k == WaitingCall(as.calls, rid)
        as1 == [as EXCEPT !.pendingApprovals = RemoveKey(@, rid),
                          !.resolved[rid] = @ + 1]
    IN IF k = 0 THEN as1
       ELSE [as1 EXCEPT !.calls[k] = [@ EXCEPT !.pc = "done", !.via = by, !.decision = d,
                                               !.result = approvalResult(d)]]

(* PendingQuestion.resolve *)
questionResolve(as, rid, answer) ==
    LET k == WaitingCall(as.calls, rid)
        as1 == [as EXCEPT !.pendingQuestions = RemoveKey(@, rid),
                          !.resolved[rid] = @ + 1]
    IN IF k = 0 THEN as1 ELSE questionAnswered(as1, k, answer)

(* handleApprovalAction(requestId, approved) *)
handleApprovalAction(as, rid, d, by) ==
    IF rid \in DOMAIN as.pendingApprovals THEN approvalResolve(as, rid, d, by) ELSE as

handleApprovalActionRet(as, rid) == rid \in DOMAIN as.pendingApprovals

(* handleQuestionAnswer(requestId, answer) *)
handleQuestionAnswer(as, rid, answer) ==
    IF rid \in DOMAIN as.pendingQuestions THEN questionResolve(as, rid, answer) ELSE as

handleQuestionAnswerRet(as, rid) == rid \in DOMAIN as.pendingQuestions

(* A selection that ignores the channel *)
approvalsOfAnyChannel(pa, c) == DOMAIN pa

(* The entries of pendingApprovals that cancelUserApprovals(channelId) selects *)
approvalsOfChannel(pa, c) == { r \in DOMAIN pa : pa[r].channelId = c }

RECURSIVE cancelEach(_, _)
cancelEach(as, rids) ==
    IF rids = {} THEN as
    ELSE LET r == CHOOSE x \in rids : TRUE
         IN cancelEach(approvalResolve(as, r, DecFalse, "cancel"), rids \ {r})

(* cancelUserApprovals(channelId) *)
cancelUserApprovals(as, c) == cancelEach(as, approvalsOfChannel(as.pendingApprovals, c))

(* A check that approves nothing by itself *)
autoApprovedNever(tools, tool) == FALSE

(* onToolApproval: `config.autoApproveTools.includes(request.toolName)` *)
autoApproved(tools, tool) == tool \in tools

(* canUseTool(toolName, input) with config.autoApproveTools being tools: the SDK asks
   whether query q may use the tool.
   throws: getToolEmoji / formatToolInput raise on this input *)
canUseToolWith(as, tools, q, tool, questions, throws) ==
    LET k == Len(as.calls) + 1
        as0 == [as EXCEPT !.calls = Append(as.calls, NewCall(q, tool, questions))]
    IN IF tool = AskTool
       THEN askNext(as0, k)
       ELSE IF autoApproved(tools, tool)
       THEN [as0 EXCEPT !.calls[k] = [@ EXCEPT !.pc = "done", !.via = "auto",
                                               !.decision = DecTrue,
                                               !.result = approvalResult(DecTrue)]]
       ELSE IF throws
       THEN [as0 EXCEPT !.calls[k] = [@ EXCEPT !.pc = "done", !.via = "threw",
                                               !.result = Deny("Tool approval cancelled")]]
       ELSE [as0 EXCEPT !.calls[k] = [@ EXCEPT !.pc = "posting", !.rid = as.nextRid + 1],
                        !.nextRid = as.nextRid + 1]

(* canUseTool(toolName, input) in the current state *)
canUseTool(as, q, tool, questions, throws) ==
    canUseToolWith(as, autoApproveTools, q, tool, questions, throws)

(* requestApproval after `await client.chat.postMessage`: the entry is registered,
   or, when the post failed, false is returned *)
requestApprovalPosted(as, k, ok) ==
    LET cl == as.calls[k] IN
    IF ok
    THEN [as EXCEPT !.pendingApprovals =
                        PutKey(@, cl.rid, [toolName |-> cl.tool,
                                           channelId |-> queries[cl.q].chan]),
                    !.buttons[cl.rid] = cl.tool,
                    !.calls[k] = [cl EXCEPT !.pc = "waiting"]]
    ELSE [as EXCEPT !.calls[k] = [cl EXCEPT !.pc = "done", !.via = "postFailed",
                                            !.decision = DecFalse,
                                            !.result = approvalResult(DecFalse)]]

(* A requestUserQuestion that does not wait for the answer of a posted question
   before the loop goes on *)
requestUserQuestionPostedEager(as, k, ok) ==
    LET cl == as.calls[k] IN
    IF ok
    THEN askNext([as EXCEPT !.pendingQuestions =
                                PutKey(@, cl.rid, [options |-> QuestionOptions,
                                                   channelId |-> queries[cl.q].chan]),
                            !.buttons[cl.rid] = cl.tool,
                            !.calls[k] = [cl EXCEPT !.qi = cl.qi + 1]], k)
    ELSE questionAnswered(as, k, QuestionOptions[1])

(* A requestUserQuestion that waits for an answer whether or not its post was
   delivered *)
requestUserQuestionPostedWaiting(as, k, ok) ==
    LET cl == as.calls[k] IN
    [as EXCEPT !.pendingQuestions =
                   PutKey(@, cl.rid, [options |-> QuestionOptions,
                                      channelId |-> queries[cl.q].chan]),
               !.calls[k] = [cl EXCEPT !.pc = "waiting"]]

(* requestUserQuestion after `await client.chat.postMessage`: the entry is
   registered, or, when the post failed, the first option's value is the answer *)
requestUserQuestionPosted(as, k, ok) ==
    LET cl == as.calls[k] IN
    IF ok
    THEN [as EXCEPT !.pendingQuestions =
                        PutKey(@, cl.rid, [options |-> QuestionOptions,
                                           channelId |-> queries[cl.q].chan]),
                    !.buttons[cl.rid] = cl.tool,
                    !.calls[k] = [cl EXCEPT !.pc = "waiting"]]
    ELSE questionAnswered(as, k, QuestionOptions[1])

(* updateApprovalMessage / updateQuestionMessage: chat.update replaces the blocks of
   the request's message, buttons included (the update is taken to succeed) *)
updateRequestMessage(as, rid) == [as EXCEPT !.buttons[rid] = ""]

(* A button handler: the entry is looked up (getPendingApproval / getPendingQuestion)
   before the decision is handled, and the message is updated when it was found *)
afterDecision(as, as1, rid) ==
    IF rid \in DOMAIN as.pendingApprovals \/ rid \in DOMAIN as.pendingQuestions
    THEN updateRequestMessage(as1, rid) ELSE as1

(* A handler that leaves the list as it is *)
addAutoApproveNothing(tools, tool) == tools

(* always_allow_tool: `config.autoApproveTools.push(toolName)` unless included *)
addAutoApprove(tools, tool) == tools \cup {tool}

(* requestUserQuestion: a button's value, `${requestId}:${opt.value}`, as the
   sequence of its pieces: the request id, a colon, the pieces of the value *)
buttonValue(rid, v) == <<ToString(rid), Colon>> \o v

(* String.prototype.split(':'): the pieces between the colons *)
RECURSIVE split(_)
split(s) ==
    IF \A i \in 1..Len(s) : s[i] # Colon
    THEN <<s>>
    ELSE LET i == CHOOSE j \in 1..Len(s) : s[j] = Colon /\ \A h \in 1..(j - 1) : s[h] # Colon
         IN <<SubSeq(s, 1, i - 1)>> \o split(SubSeq(s, i + 1, Len(s)))

(* question_answer_i: `const [requestId, answer] = value.split(':')` *)
clickedRequest(value) ==
    LET id == split(value)[1]
    IN IF \E r \in RequestIds : <<ToString(r)>> = id
       THEN CHOOSE r \in RequestIds : <<ToString(r)>> = id ELSE 0

clickedAnswer(value) == split(value)[2]

(* The handlers of the buttons *)
onApprove(as, rid) ==
    afterDecision(as, handleApprovalAction(as, rid, DecTrue, "approve"), rid)

onDeny(as, rid) ==
    afterDecision(as, handleApprovalAction(as, rid, DecFalse, "deny"), rid)

onAlwaysAllow(as, rid) ==
    afterDecision(as, handleApprovalAction(as, rid, DecTrue, "always"), rid)

onFeedback(as, rid, fb) ==
    afterDecision(as, handleApprovalAction(as, rid, DecDenied(fb), "feedback"), rid)

onQuestionAnswer(as, rid, answer) ==
    afterDecision(as, handleQuestionAnswer(as, rid, answer), rid)

(* The calls of query q that have not returned *)
OpenCalls(q) == { k \in 1..Len(calls) : calls[k].q = q /\ calls[k].pc # "done" }

(* The SDK's stream: the session id its init message of query q carries *)
AgentSessionId(q) == IF queries[q].resume # 0 THEN queries[q].resume ELSE q

----------------------------------------------------------------------------
(* sessionManager (terminal variant): the cleaning of captured terminal output.
   A text is the sequence of its characters, each character a string naming it:
   "ESC" \u001b, "CSI" \u009b, "NL" line feed, "SP" space, "RULE" the box
   drawing rule, "LOGO_1".."LOGO_6" the block characters of the banner, "PAUSE"
   and "PLAY" the status symbols, "DOT" the middle dot; any other character is
   its own name *)

Whitespace == {"SP", "NL", "TAB", "CR"}
Digits == {"0", "1", "2", "3", "4", "5", "6", "7", "8", "9"}

(* The character classes of stripAnsi's pattern *)
AnsiIntro == {"ESC", "CSI"}
AnsiPrefix == {"[", "(", ")", "#", ";", "?"}
AnsiFinal ==
    Digits \cup {"A", "B", "C", "D", "E", "F", "G", "H", "I", "J", "K", "L", "M", "N", "O"}
           \cup {"R", "Z", "c", "f", "g", "h", "i", "j", "k", "l", "m", "n", "q", "r", "y"}
           \cup {"=", ">", "<"}

(* The first index from i on whose character is not of class cls *)
RECURSIVE skipWhile(_, _, _)
skipWhile(s, i, cls) ==
    IF i <= Len(s) /\ s[i] \in cls THEN skipWhile(s, i + 1, cls) ELSE i

(* The n characters of s from i on are digits *)
digitsAt(s, i, n) == i + n - 1 <= Len(s) /\ \A j \in i..(i + n - 1) : s[j] \in Digits

(* The end of `[0-9A-ORZcf-nqry=><]` matched at i (0 = no match) *)
finalAt(s, i) == IF i <= Len(s) /\ s[i] \in AnsiFinal THEN i + 1 ELSE 0

(* The end of the repeated group `;[0-9]{0,4}` and the final character matched at
   i: the repetition takes another `;` and as many digits as let the rest match,
   before it gives up *)
RECURSIVE paramsTailAt(_, _)
paramsTailAt(s, i) ==
    LET more == IF i <= Len(s) /\ s[i] = ";"
                THEN { n \in 0..4 : digitsAt(s, i + 1, n) /\ paramsTailAt(s, i + 1 + n) # 0 }
                ELSE {}
    IN IF more # {}
       THEN paramsTailAt(s, i + 1 + CHOOSE n \in more : \A m \in more : m <= n)
       ELSE finalAt(s, i)

(* The end of the optional parameter group (one to four digits and its `;` tail)
   and the final character matched at i *)
paramsAt(s, i) ==
    LET some == { n \in 1..4 : digitsAt(s, i, n) /\ paramsTailAt(s, i + n) # 0 }
    IN IF some # {}
       THEN paramsTailAt(s, i + CHOOSE n \in some : \A m \in some : m <= n)
       ELSE finalAt(s, i)

(* The end of the match of stripAnsi's pattern that starts at i (0 = no match):
   the prefix class takes the longest run of its characters that lets the rest
   match *)
ansiMatchAt(s, i) ==
    IF s[i] \notin AnsiIntro THEN 0
    ELSE LET run == skipWhile(s, i + 1, AnsiPrefix)
             ok == { j \in (i + 1)..run : paramsAt(s, j) # 0 }
         IN IF ok = {} THEN 0
            ELSE paramsAt(s, CHOOSE j \in ok : \A h \in ok : h <= j)

(* str.replace(pattern, '') with the g flag, from index i on: the leftmost match
   from i on is dropped and the scan goes on behind it *)
RECURSIVE stripFrom(_, _)
stripFrom(s, i) ==
    LET starts == { j \in i..Len(s) : ansiMatchAt(s, j) # 0 }
    IN IF starts = {} THEN SubSeq(s, i, Len(s))
       ELSE LET j == CHOOSE h \in starts : \A k \in starts : h <= k
            IN SubSeq(s, i, j - 1) \o stripFrom(s, ansiMatchAt(s, j))

(* stripAnsi(str) *)
stripAnsi(str) == stripFrom(str, 1)

(* String.prototype.trim() *)
trim(s) ==
    LET kept == { i \in 1..Len(s) : s[i] \notin Whitespace }
    IN IF kept = {} THEN <<>>
       ELSE SubSeq(s, CHOOSE i \in kept : \A j \in kept : i <= j,
                      CHOOSE i \in kept : \A j \in kept : j <= i)

(* String.prototype.includes / startsWith *)
startsWithAt(s, i, sub) ==
    i + Len(sub) - 1 <= Len(s) /\ \A j \in 1..Len(sub) : s[i + j - 1] = sub[j]

includes(s, sub) == \E i \in 1..(Len(s) + 1) : startsWithAt(s, i, sub)

startsWith(s, sub) == startsWithAt(s, 1, sub)

(* output.split('\n') *)
RECURSIVE splitLines(_)
splitLines(s) ==
    IF \A i \in 1..Len(s) : s[i] # "NL"
    THEN <<s>>
    ELSE LET i == CHOOSE j \in 1..Len(s) : s[j] = "NL" /\ \A h \in 1..(j - 1) : s[h] # "NL"
         IN <<SubSeq(s, 1, i - 1)>> \o splitLines(SubSeq(s, i + 1, Len(s)))

(* cleanedLines.join('\n') *)
RECURSIVE joinLines(_)
joinLines(ls) ==
    IF ls = <<>> THEN <<>>
    ELSE IF Len(ls) = 1 THEN ls[1]
    ELSE ls[1] \o <<"NL">> \o joinLines(Tail(ls))

ModelNames == { <<"O", "p", "u", "s">>, <<"S", "o", "n", "n", "e", "t">>, <<"H", "a", "i", "k", "u">> }

(* The status bar pattern tested on s: a model name, white space, a number with
   an optional fraction, optional white space and the character mark; the
   fraction is taken when the mark follows it, else the integer alone *)
modelLine(s, mark) ==
    \E name \in ModelNames :
        /\ startsWith(s, name)
        /\ LET a == Len(name) + 1
               b == skipWhile(s, a, Whitespace)
               c == skipWhile(s, b, Digits)
               d == IF c <= Len(s) /\ s[c] = "." THEN skipWhile(s, c + 1, Digits) ELSE c
               markAfter(i) == LET j == skipWhile(s, i, Whitespace)
                               IN j <= Len(s) /\ s[j] = mark
           IN /\ b > a
              /\ c > b
              /\ \/ (d > c + 1 /\ markAfter(d))
                 \/ markAfter(c)

(* The rule character, n times *)
rule(n) == [i \in 1..n |-> "RULE"]

SeparatorMin == 10
SeparatorWidth == 24

(* The separator pattern: ten or more rule characters and nothing else *)
longSeparator(s) == Len(s) >= SeparatorMin /\ \A i \in 1..Len(s) : s[i] = "RULE"

(* cleanTerminalOutput: a line of the banner, the status bar or the tips *)
skippedLine(trimmed) ==
    \/ includes(trimmed, <<"LOGO_1", "LOGO_2">>)
    \/ includes(trimmed, <<"LOGO_3", "LOGO_4">>)
    \/ includes(trimmed, <<"LOGO_5", "LOGO_5">>)
    \/ includes(trimmed, <<"C", "l", "a", "u", "d", "e", "SP", "C", "o", "d", "e", "SP", "v">>)
    \/ modelLine(trimmed, "DOT")
    \/ modelLine(trimmed, "|")
    \/ startsWith(trimmed, <<"PAUSE">>) \/ startsWith(trimmed, <<"PLAY">>)
    \/ includes(trimmed, <<"/", "i", "d", "e", "SP", "f", "o", "r">>)

(* cleanTerminalOutput's loop over the lines *)
RECURSIVE cleanLines(_)
cleanLines(ls) ==
    IF ls = <<>> THEN <<>>
    ELSE LET line == ls[1]
             trimmed == trim(line)
         IN IF skippedLine(trimmed) THEN cleanLines(Tail(ls))
            ELSE IF longSeparator(trimmed) THEN <<rule(SeparatorWidth)>> \o cleanLines(Tail(ls))
            ELSE <<line>> \o cleanLines(Tail(ls))

(* cleanTerminalOutput(output) *)
cleanTerminalOutput(output) == trim(joinLines(cleanLines(splitLines(output))))

(* The cleaning pass of updateSlack and uploadFullOutput *)
cleaningPass(text) == cleanTerminalOutput(stripAnsi(text))

----------------------------------------------------------------------------
(* index (SDK variant): rendering of a response on the chat surface.  The
   surface is the channel's messages in the order they were posted (the place of
   a message is its ts) and the files uploaded to it.  The response text grows by
   appending, so a content is given by its length; a message text is the number
   of characters of the response it shows and whether it ends with the
   full-response-uploaded marker *)

SLACK_TEXT_LIMIT == 3000
SummaryLength == 500
messageRotationMs == 60000

NoMessage == [shown |-> 0, marker |-> FALSE, postedAt |-> 0 - 1, error |-> ""]
NoTs == 0

ThinkingText == [shown |-> 0, marker |-> FALSE]

(* The text that shows the whole content *)
contentText(content) == [shown |-> content, marker |-> FALSE]

(* content.slice(0, 500) + '...\n\n_(Full response uploaded as file)_' *)
summaryText(content) ==
    [shown |-> IF content < SummaryLength THEN content ELSE SummaryLength, marker |-> TRUE]

textOf(msg) == [shown |-> msg.shown, marker |-> msg.marker]

onSurface(sf, ts) == ts \in 1..Len(sf.messages) /\ sf.messages[ts] # NoMessage

(* The outcomes of the Slack calls an invocation makes, decided by Slack *)
UpdateOutcomes == {"ok", "msg_too_long", "other_error"}
ApiOutcomes ==
    [deleteThinking : BOOLEAN, delete : BOOLEAN, upload : BOOLEAN, post : BOOLEAN,
     update : UpdateOutcomes, updateSummary : BOOLEAN]

(* client.chat.delete: the message is gone when Slack carries the call out *)
chatDelete(sf, ts, ok) ==
    IF ok /\ onSurface(sf, ts)
    THEN [sf EXCEPT !.messages[ts] = NoMessage]
    ELSE sf

(* client.files.uploadV2 *)
filesUpload(sf, content, ok) ==
    IF ok THEN [sf EXCEPT !.files = @ \cup {content}] ELSE sf

(* client.chat.postMessage: the new message's ts is its place *)
chatPost(sf, t, text, ok) ==
    IF ok
    THEN [sf EXCEPT !.messages = Append(@, [shown |-> text.shown, marker |-> text.marker,
                                            postedAt |-> t,
                                            error |-> IF "error" \in DOMAIN text
                                                      THEN text.error ELSE ""])]
    ELSE sf

(* client.chat.update: the error of the call, message_not_found when the target
   is not on the surface *)
updateError(sf, ts, outcome) ==
    IF ~onSurface(sf, ts) THEN "message_not_found" ELSE outcome

(* client.chat.update carried out: the text changes, the ts stays *)
chatUpdate(sf, ts, text) ==
    [sf EXCEPT !.messages[ts] = [shown |-> text.shown, marker |-> text.marker,
                                 postedAt |-> @.postedAt, error |-> ""]]

(* The result of an invocation: the surface it leaves, the Slack calls it made,
   the error of its first chat.update ("" = none), the ts it returned and the
   error it threw ("" = none) *)
Rendered(sf, apiCalls, updateErr, ts, err) ==
    [surface |-> sf, calls |-> apiCalls, updateError |-> updateErr, ret |-> ts, threw |-> err]

(* updateSlackMessage's post of text as a new message *)
postNew(sf, t, text, ok, before, updateErr) ==
    LET s == chatPost(sf, t, text, ok)
    IN IF ok THEN Rendered(s, before \o <<"post">>, updateErr, Len(s.messages), "")
       ELSE Rendered(s, before \o <<"post">>, updateErr, NoTs, "post_failed")

(* updateSlackMessage, with the test for the upload path and the handling of
   message_not_found given *)
updateSlackMessageWith(client, messageTs, content, tooLong, recovers) ==
    LET sf == client.surface
        api == client.api
    IN IF tooLong
       THEN LET s1 == IF messageTs # NoTs THEN chatDelete(sf, messageTs, api.delete) ELSE sf
                c1 == IF messageTs # NoTs THEN <<"delete">> ELSE <<>>
                s2 == filesUpload(s1, content, api.upload)
            IN postNew(s2, client.now, summaryText(content), api.post, c1 \o <<"upload">>, "")
       ELSE IF messageTs = NoTs
       THEN postNew(sf, client.now, contentText(content), api.post, <<>>, "")
       ELSE LET err == updateError(sf, messageTs, api.update)
            IN IF err = "ok"
               THEN Rendered(chatUpdate(sf, messageTs, contentText(content)),
                             <<"update">>, "", messageTs, "")
               ELSE IF err = "msg_too_long"
               THEN LET s1 == filesUpload(sf, content, api.upload)
                    IN IF ~api.upload
                       THEN Rendered(s1, <<"update", "upload">>, err, messageTs, "")
                       ELSE IF api.updateSummary
                       THEN Rendered(chatUpdate(s1, messageTs, summaryText(content)),
                                     <<"update", "upload", "update">>, err, messageTs, "")
                       ELSE Rendered(s1, <<"update", "upload", "update">>, err, messageTs, "")
               ELSE IF err = "message_not_found" /\ recovers
               THEN postNew(sf, client.now, contentText(content), api.post, <<"update">>, err)
               ELSE Rendered(sf, <<"update">>, err, NoTs, err)

(* updateSlackMessage with `>=` for `>` in the length test *)
updateSlackMessageAtLimit(client, messageTs, content) ==
    updateSlackMessageWith(client, messageTs, content, content >= SLACK_TEXT_LIMIT, TRUE)

(* updateSlackMessage without the message_not_found branch *)
updateSlackMessageRethrowing(client, messageTs, content) ==
    updateSlackMessageWith(client, messageTs, content, content > SLACK_TEXT_LIMIT, FALSE)

(* updateSlackMessage(client, channelId, messageTs, content) *)
updateSlackMessage(client, messageTs, content) ==
    updateSlackMessageWith(client, messageTs, content, content > SLACK_TEXT_LIMIT, TRUE)

----------------------------------------------------------------------------
(* sessionManager (terminal variant): the Session objects, their poll loops and
   updateSlack.  A pane text is given by its version (a later capture of a
   changed pane has a higher version) and whether it is blank once the escape
   sequences are stripped; a message shows the version it was written from *)

NoSnapshot == [version |-> 0, blank |-> TRUE]
NoObject == 0
(* notifyError: messages[errorType] *)
errorText(errorType) == [shown |-> 0, marker |-> FALSE, error |-> errorType]

(* createSessionObject: lastSnapshot '', slackTs null, msgStartTime 0, no interval.
   pollingInterval tells whether the handle field is set, timers counts the
   interval timers of this object the event loop still fires, captures are its
   capture-pane calls in flight, legacy tells which session manager made it *)
createSessionObject ==
    [lastSnapshot |-> NoSnapshot, slackTs |-> NoTs, msgStartTime |-> 0,
     pollingInterval |-> FALSE, timers |-> 0, captures |-> <<>>, legacy |-> FALSE]

(* createSessionObject of the legacy session manager *)
createSessionObjectJs == [createSessionObject EXCEPT !.legacy = TRUE]

(* clearInterval(this.pollingInterval): the timer the handle names stops; the
   field keeps its value *)
clearInterval(this) ==
    IF this.pollingInterval /\ this.timers > 0 THEN [this EXCEPT !.timers = @ - 1] ELSE this

(* startPolling without its first line *)
startPollingAgain(this) == [this EXCEPT !.pollingInterval = TRUE, !.timers = @ + 1]

(* startPolling: if (this.pollingInterval) return; this.pollingInterval = setInterval(...) *)
startPolling(this) ==
    IF this.pollingInterval THEN this
    ELSE [this EXCEPT !.pollingInterval = TRUE, !.timers = @ + 1]

(* terminate up to its await: if (session.pollingInterval) clearInterval(...) *)
terminate(this) == clearInterval(this)

(* terminate of the legacy session manager up to its await: an arrow function,
   whose this is not the session object, so that this.pollingInterval is
   undefined and nothing is cleared *)
terminateJs(this) == this

NoCall == [kind |-> "none", ts |-> NoTs, snapshot |-> 0, object |-> NoObject]

(* updateSlack up to its await, run by object o at time t: nothing for blank
   output; else the target is dropped when rotates says so, and the message is
   posted when there is no target and the target updated when there is one *)
updateSlackWith(this, o, output, t, rotates) ==
    IF output.blank THEN [this |-> this, call |-> NoCall]
    ELSE LET ts == IF this.slackTs # NoTs /\ rotates THEN NoTs ELSE this.slackTs
         IN [this |-> [this EXCEPT !.slackTs = ts],
             call |-> [kind |-> IF ts = NoTs THEN "post" ELSE "update", ts |-> ts,
                       snapshot |-> output.version, object |-> o]]

(* updateSlack without the rotation of the target *)
updateSlackNeverRotating(this, o, output, t) ==
    updateSlackWith(this, o, output, t, FALSE)

(* updateSlack(output, client, channelId), up to its await *)
updateSlack(this, o, output, t) ==
    updateSlackWith(this, o, output, t, t - this.msgStartTime > messageRotationMs)

(* The poll loop's callback once capture-pane has returned output *)
pollCaptured(this, o, output, t) ==
    IF output = this.lastSnapshot THEN [this |-> this, call |-> NoCall]
    ELSE updateSlack([this EXCEPT !.lastSnapshot = output], o, output, t)

(* notifyError: the error text is posted *)
notifyError(sf, t, errorType) == chatPost(sf, t, errorText(errorType), TRUE)

(* updateSlack behind its await: Slack has carried out the call or refused it *)
updateSlackDone(this, sf, call, t, ok) ==
    IF call.kind = "post"
    THEN IF ok
         THEN LET s == chatPost(sf, t, [shown |-> call.snapshot, marker |-> FALSE], TRUE)
              IN [this |-> [this EXCEPT !.slackTs = Len(s.messages), !.msgStartTime = t],
                  surface |-> s]
         ELSE [this |-> this, surface |-> notifyError(sf, t, "slack_error")]
    ELSE IF ~onSurface(sf, call.ts)
         THEN [this |-> [this EXCEPT !.slackTs = NoTs], surface |-> sf]
         ELSE IF ok
         THEN [this |-> this,
               surface |-> chatUpdate(sf, call.ts, [shown |-> call.snapshot, marker |-> FALSE])]
         ELSE [this |-> this, surface |-> notifyError(sf, t, "slack_error")]

----------------------------------------------------------------------------
SdkInit ==
    /\ sessions = [c \in Channels |-> NoSession]
    /\ queries = <<>>
    /\ channelWorkingDirs = [c \in Channels |-> NoDir]
    /\ calls = <<>>
    /\ pendingApprovals = <<>>
    /\ pendingQuestions = <<>>
    /\ buttons = [r \in RequestIds |-> ""]
    /\ autoApproveTools = DefaultAutoApproveTools
    /\ permissionModes = [c \in Channels |-> NoMode]
    /\ nextRid = 0

CleanVars == <<rawOutput, cleanedOutput, passes>>

(* Nothing captured from a terminal yet *)
CleanIdle ==
    /\ rawOutput = <<>>
    /\ cleanedOutput = <<>>
    /\ passes = 0

RenderVars == <<surface, now, currentMessageTs, accumulatedContent, lastRender>>

NoRender ==
    [target |-> NoTs, content |-> 0, calls |-> <<>>, updateError |-> "", ret |-> NoTs,
     threw |-> "", escaped |-> ""]

(* No response is being rendered *)
RenderIdle ==
    /\ surface = [messages |-> <<>>, files |-> {}]
    /\ now = 0
    /\ currentMessageTs = NoTs
    /\ accumulatedContent = 0
    /\ lastRender = NoRender

TerminalVars == <<sessionObjects, terminalSessions, tmux, slackCalls, creating>>

(* No getOrCreateSession invocation yet *)
CreateIdle == creating = <<>>

(* No terminal session *)
TerminalIdle ==
    /\ sessionObjects = <<>>
    /\ terminalSessions = 0
    /\ tmux = [exists |-> FALSE, spawned |-> 0, pane |-> [version |-> 0, blank |-> TRUE]]
    /\ slackCalls = {}
    /\ CreateIdle

OutputVars == <<CleanVars, RenderVars, TerminalVars>>

SdkVars == <<sessions, queries, channelWorkingDirs, calls, pendingApprovals,
             pendingQuestions, buttons, autoApproveTools, permissionModes, nextRid>>

Init == SdkInit /\ CleanIdle /\ RenderIdle /\ TerminalIdle

SessionVars == <<sessions, queries, permissionModes>>
ApprovalVars == <<calls, pendingApprovals, pendingQuestions, buttons, nextRid>>

(* app.message, a text that is no command: the thinking indicator is posted and
   sendMessage starts the query *)
MsgSend(c) ==
    /\ Len(queries) < MaxQueries
    /\ SetStore(sendMessage(Store, c, getChannelWorkingDir(c)))
    /\ UNCHANGED <<channelWorkingDirs, ApprovalVars, autoApproveTools, OutputVars>>

(* app.message "abort" *)
MsgAbort(c) ==
    /\ SetStore(interruptSession(Store, c))
    /\ SetAStore(cancelUserApprovals(AStore, c))
    /\ UNCHANGED <<channelWorkingDirs, autoApproveTools, OutputVars>>

(* app.message "exit" *)
MsgExit(c) ==
    /\ SetStore(exitSession(Store, c))
    /\ SetAStore(cancelUserApprovals(AStore, c))
    /\ UNCHANGED <<channelWorkingDirs, autoApproveTools, OutputVars>>

(* app.message "mode <arg>" *)
MsgMode(c, modeArg) ==
    /\ SetStore(onMode(Store, c, modeArg))
    /\ UNCHANGED <<channelWorkingDirs, ApprovalVars, autoApproveTools, OutputVars>>

(* app.message "cd <path>" *)
MsgCd(c, d) ==
    LET r == onCd(Store, channelWorkingDirs, c, d)
    IN /\ SetStore(r.store)
       /\ channelWorkingDirs' = r.dirs
       /\ UNCHANGED <<ApprovalVars, autoApproveTools, OutputVars>>

(* sendMessage's `for await` body: the init message's session id is captured, and
   every message is forwarded to onMessage, which renders assistant text and adds a
   result's usage to the channel's session *)
StreamMessage(q, kind, u) ==
    /\ Running(q)
    /\ OpenCalls(q) = {}
    /\ LET qr == queries[q] IN
       CASE kind = "init" ->
                 /\ ~qr.init
                 /\ SetStore(captureSessionId(Store, q, AgentSessionId(q)))
         [] kind = "assistant" ->
                 /\ qr.init /\ ~qr.result
                 /\ SetStore(Store)
         [] kind = "result" ->
                 /\ qr.init /\ ~qr.result
                 /\ SetStore(updateTokenUsage([Store EXCEPT !.queries[q].result = TRUE],
                                              qr.chan, u))
    /\ UNCHANGED <<channelWorkingDirs, ApprovalVars, autoApproveTools, OutputVars>>

(* The end of sendMessage: the loop finishes, or the catch block runs on an
   AbortError or on another error; all three mark the session idle *)
QueryEnd(q, how) ==
    /\ Running(q)
    /\ CASE how = "complete" -> queries[q].result /\ OpenCalls(q) = {}
         [] how = "abort" -> Signalled(queries[q])
         [] how = "error" -> TRUE
    /\ SetStore(markIdle(Store, q))
    /\ UNCHANGED <<channelWorkingDirs, ApprovalVars, autoApproveTools, OutputVars>>

(* The SDK calls canUseTool for a tool use of query q *)
CanUseTool(q, tool, questions, throws) ==
    /\ Running(q)
    /\ ~Signalled(queries[q])
    /\ queries[q].init /\ ~queries[q].result
    /\ OpenCalls(q) = {}
    /\ Len(calls) < MaxCalls
    /\ SetAStore(canUseTool(AStore, q, tool, questions, throws))
    /\ UNCHANGED <<SessionVars, channelWorkingDirs, autoApproveTools, OutputVars>>

(* client.chat.postMessage of requestApproval returns or throws *)
ApprovalPosted(k, ok) ==
    /\ calls[k].pc = "posting" /\ calls[k].tool # AskTool
    /\ SetAStore(requestApprovalPosted(AStore, k, ok))
    /\ UNCHANGED <<SessionVars, channelWorkingDirs, autoApproveTools, OutputVars>>

(* client.chat.postMessage of requestUserQuestion returns or throws *)
QuestionPosted(k, ok) ==
    /\ calls[k].pc = "posting" /\ calls[k].tool = AskTool
    /\ SetAStore(requestUserQuestionPosted(AStore, k, ok))
    /\ UNCHANGED <<SessionVars, channelWorkingDirs, autoApproveTools, OutputVars>>

(* app.action('approve_tool') *)
ActionApprove(rid) ==
    /\ buttons[rid] \in ApprovalTools
    /\ SetAStore(onApprove(AStore, rid))
    /\ UNCHANGED <<SessionVars, channelWorkingDirs, autoApproveTools, OutputVars>>

(* app.action('deny_tool') *)
ActionDeny(rid) ==
    /\ buttons[rid] \in ApprovalTools
    /\ SetAStore(onDeny(AStore, rid))
    /\ UNCHANGED <<SessionVars, channelWorkingDirs, autoApproveTools, OutputVars>>

(* app.action('always_allow_tool'), the button value being `${requestId}:${toolName}` *)
ActionAlwaysAllow(rid, tool) ==
    /\ buttons[rid] = tool /\ tool \in ApprovalTools \ {PlanTool}
    /\ autoApproveTools' = addAutoApprove(autoApproveTools, tool)
    /\ SetAStore(onAlwaysAllow(AStore, rid))
    /\ UNCHANGED <<SessionVars, channelWorkingDirs, OutputVars>>

(* app.view(/^feedback_modal_/): the feedback modal is submitted *)
ViewFeedback(rid, fb) ==
    /\ buttons[rid] = PlanTool
    /\ SetAStore(onFeedback(AStore, rid, fb))
    /\ UNCHANGED <<SessionVars, channelWorkingDirs, autoApproveTools, OutputVars>>

(* app.action('question_answer_i'), the button value being `${requestId}:${opt.value}` *)
ActionQuestionAnswer(rid, i) ==
    /\ buttons[rid] = AskTool
    /\ LET value == buttonValue(rid, QuestionOptions[i])
       IN SetAStore(onQuestionAnswer(AStore, clickedRequest(value), clickedAnswer(value)))
    /\ UNCHANGED <<SessionVars, channelWorkingDirs, autoApproveTools, OutputVars>>

(* The session lifecycle: messages, commands, the agent's stream *)
Lifecycle ==
    \/ \E c \in Channels : MsgAbort(c)
    \/ \E c \in Channels : MsgExit(c)
    \/ \E q \in 1..Len(queries), kind \in {"init", "assistant", "result"}, u \in Usages :
          StreamMessage(q, kind, u)
    \/ \E q \in 1..Len(queries), how \in {"complete", "abort", "error"} : QueryEnd(q, how)

(* Tool approval: the SDK's permission requests and the chat's button events; an
   AskUserQuestion call carries up to maxq questions *)
Approval(maxq) ==
    \/ \E q \in 1..Len(queries), tool \in ApprovalTools, throws \in BOOLEAN :
          CanUseTool(q, tool, <<>>, throws)
    \/ \E q \in 1..Len(queries), questions \in QuestionLists(maxq) :
          CanUseTool(q, AskTool, questions, FALSE)
    \/ \E k \in 1..Len(calls), ok \in BOOLEAN : ApprovalPosted(k, ok)
    \/ \E k \in 1..Len(calls), ok \in BOOLEAN : QuestionPosted(k, ok)
    \/ \E rid \in RequestIds : ActionApprove(rid)
    \/ \E rid \in RequestIds : ActionDeny(rid)
    \/ \E rid \in RequestIds, tool \in ApprovalTools : ActionAlwaysAllow(rid, tool)
    \/ \E rid \in RequestIds, fb \in Feedbacks : ViewFeedback(rid, fb)
    \/ \E rid \in RequestIds, i \in 1..Len(QuestionOptions) :
          ActionQuestionAnswer(rid, i)

(* The sessions of the channels, without tool use *)
Next ==
    \/ \E c \in Channels : MsgSend(c)
    \/ \E c \in Channels, d \in Dirs \cup {MissingDir} : MsgCd(c, d)
    \/ Lifecycle

Spec == Init /\ [][Next]_vars

(* The sessions with tool use *)
NextApproval ==
    \/ \E c \in Channels : Len(queries) < MaxApprovalQueries /\ MsgSend(c)
    \/ Lifecycle
    \/ Approval(MaxQuestions)

SpecApproval == Init /\ [][NextApproval]_vars

(* The sessions from a first message to the message that follows it *)
NextResume ==
    \/ \E c \in Channels : Len(queries) < MaxResumeQueries /\ MsgSend(c)
    \/ \E c \in Channels, d \in Dirs \cup {MissingDir} : MsgCd(c, d)
    \/ Lifecycle

SpecResume == Init /\ [][NextResume]_vars

(* As many messages as there are channels: one query on each channel, or a query
   and the one that supersedes it *)
MaxDecisionQueries == Cardinality(Channels)

(* The sessions with tool use, every AskUserQuestion call carrying one question *)
NextDecision ==
    \/ \E c \in Channels : Len(queries) < MaxDecisionQueries /\ MsgSend(c)
    \/ Lifecycle
    \/ Approval(1)

SpecDecision == Init /\ [][NextDecision]_vars

MaxModeQueries == 2

(* The sessions and the permission mode command *)
NextMode ==
    \/ \E c \in Channels : Len(queries) < MaxModeQueries /\ MsgSend(c)
    \/ \E c \in Channels, modeArg \in ModeArgs \cup {""} : MsgMode(c, modeArg)
    \/ Lifecycle

SpecMode == Init /\ [][NextMode]_vars

MaxQuestionQueries == 2

(* The questions of the agent: AskUserQuestion calls of up to MaxQuestions
   questions, their posts and their answers *)
Asking ==
    \/ \E q \in 1..Len(queries), questions \in QuestionLists(MaxQuestions) :
          CanUseTool(q, AskTool, questions, FALSE)
    \/ \E k \in 1..Len(calls), ok \in BOOLEAN : QuestionPosted(k, ok)
    \/ \E rid \in RequestIds, i \in 1..Len(QuestionOptions) : ActionQuestionAnswer(rid, i)

(* The sessions whose agent asks questions *)
NextQuestions ==
    \/ \E c \in Channels : Len(queries) < MaxQuestionQueries /\ MsgSend(c)
    \/ Lifecycle
    \/ Asking

SpecQuestions == Init /\ [][NextQuestions]_vars

(* The terminal variant's cleaning of a captured pane.  A pane text is made of up
   to MaxFragments fragments: escape sequences whole and in parts, text, line
   breaks, rules of three lengths and the lines the filter drops *)
MaxFragments == 3
MaxPasses == 2

PaneFragments ==
    { <<"ESC">>, <<"ESC", "[", "3", "1", "m">>, <<"[", "0", "m">>, <<";">>,
      <<"x">>, <<"SP">>, <<"NL">>,
      rule(5), rule(12), rule(30),
      <<"LOGO_1", "LOGO_2">>, <<"PAUSE">>,
      <<"O", "p", "u", "s", "SP", "4", ".", "5", "SP", "DOT">> }

RECURSIVE PaneTexts(_)
PaneTexts(n) ==
    IF n = 0 THEN { <<>> }
    ELSE LET shorter == PaneTexts(n - 1)
         IN shorter \cup { t \o f : t \in shorter, f \in PaneFragments }

InitClean ==
    /\ SdkInit
    /\ rawOutput \in PaneTexts(MaxFragments)
    /\ cleanedOutput = rawOutput
    /\ passes = 0
    /\ RenderIdle
    /\ TerminalIdle

(* updateSlack / uploadFullOutput: one cleaning pass over the text *)
CleanPass ==
    /\ passes < MaxPasses
    /\ cleanedOutput' = cleaningPass(cleanedOutput)
    /\ passes' = passes + 1
    /\ UNCHANGED <<SdkVars, rawOutput, RenderVars, TerminalVars>>

NextClean == CleanPass

SpecClean == InitClean /\ [][NextClean]_vars

(* The rendering of one response (index, SDK variant): the handler has posted the
   thinking indicator, the response arrives in assistant messages, time passes
   and the user may delete messages from the channel *)
ContentLengths == {400, 3000, 3001}
Instants == {0, 60000, 60001}
ThinkingTs == 1
ToolUseText == [shown |-> 0, marker |-> FALSE]

InitRender ==
    /\ SdkInit
    /\ CleanIdle
    /\ surface = [messages |-> << [shown |-> ThinkingText.shown, marker |-> ThinkingText.marker,
                                   postedAt |-> 0, error |-> ""] >>,
                  files |-> {}]
    /\ now = 0
    /\ currentMessageTs = NoTs
    /\ accumulatedContent = 0
    /\ lastRender = NoRender
    /\ TerminalIdle

(* onMessage, for an assistant message whose text blocks bring the accumulated
   content to `content`, after a tool_use block when toolUse: the tool use
   indicator is posted, the thinking indicator is deleted on the first content,
   updateSlackMessage renders the content and its result becomes the target.
   An error of a call leaves the try block; catches is whether the catch of
   onMessage is there to log it, else it escapes to the caller *)
onMessageWith(sf, t, target, render, content, toolUse, api, catches) ==
    IF toolUse /\ ~api.post
    THEN [surface |-> sf, currentMessageTs |-> target,
          lastRender |-> [render EXCEPT !.escaped = IF catches THEN @ ELSE "post_failed"]]
    ELSE LET s0 == IF toolUse THEN chatPost(sf, t, ToolUseText, TRUE) ELSE sf
             s1 == IF target = NoTs THEN chatDelete(s0, ThinkingTs, api.deleteThinking) ELSE s0
             r == updateSlackMessage([surface |-> s1, now |-> t, api |-> api], target, content)
         IN [surface |-> r.surface,
             currentMessageTs |-> IF r.threw = "" THEN r.ret ELSE target,
             lastRender |-> [target |-> target, content |-> content,
                             calls |-> r.calls, updateError |-> r.updateError,
                             ret |-> r.ret, threw |-> r.threw,
                             escaped |-> IF catches THEN "" ELSE r.threw]]

(* onMessage without its try and catch *)
onMessageUncaught(sf, t, target, render, content, toolUse, api) ==
    onMessageWith(sf, t, target, render, content, toolUse, api, FALSE)

onMessage(sf, t, target, render, content, toolUse, api) ==
    onMessageWith(sf, t, target, render, content, toolUse, api, TRUE)

(* The for-await loop of sendMessage goes on: no onMessage has thrown *)
Consuming == lastRender.escaped = ""

(* The stream yields an assistant message and sendMessage awaits onMessage *)
StreamText(content, toolUse, api) ==
    /\ Consuming
    /\ content > accumulatedContent
    /\ accumulatedContent' = content
    /\ LET r == onMessage(surface, now, currentMessageTs, lastRender, content, toolUse, api)
       IN /\ surface' = r.surface
          /\ currentMessageTs' = r.currentMessageTs
          /\ lastRender' = r.lastRender
    /\ UNCHANGED <<SdkVars, CleanVars, now, TerminalVars>>

(* A user of the channel deletes a message *)
UserDeletes(ts) ==
    /\ onSurface(surface, ts)
    /\ surface' = chatDelete(surface, ts, TRUE)
    /\ UNCHANGED <<SdkVars, CleanVars, now, currentMessageTs, accumulatedContent, lastRender,
                   TerminalVars>>

(* Time passes *)
Tick(t) ==
    /\ t > now
    /\ now' = t
    /\ UNCHANGED <<SdkVars, CleanVars, surface, currentMessageTs, accumulatedContent, lastRender,
                   TerminalVars>>

NextRender ==
    \/ \E content \in ContentLengths, toolUse \in BOOLEAN, api \in ApiOutcomes :
          StreamText(content, toolUse, api)
    \/ \E ts \in 1..Len(surface.messages) : UserDeletes(ts)
    \/ \E t \in Instants : Tick(t)

SpecRender == InitRender /\ [][NextRender]_vars

(* One terminal session (sessionManager, terminal variant): the pane changes,
   the poll loop captures it and updateSlack renders the captures; Slack carries
   the calls out in any order *)
MaxSnapshots == 3

InitTerminal ==
    /\ SdkInit
    /\ CleanIdle
    /\ RenderIdle
    /\ CreateIdle
    /\ sessionObjects = << startPolling(createSessionObject) >>
    /\ terminalSessions = 1
    /\ tmux = [exists |-> TRUE, spawned |-> 1, pane |-> NoSnapshot]
    /\ slackCalls = {}

(* The terminal program writes to the pane *)
PaneChanges(blank) ==
    /\ tmux.exists
    /\ tmux.pane.version < MaxSnapshots
    /\ tmux' = [tmux EXCEPT !.pane = [version |-> @.version + 1, blank |-> blank]]
    /\ UNCHANGED <<SdkVars, CleanVars, RenderVars, sessionObjects, terminalSessions,
                   slackCalls, creating>>

(* A tick of object o's poll loop: capture-pane returns the pane, and a changed
   pane goes to updateSlack, which is not awaited *)
Poll(o) ==
    /\ sessionObjects[o].timers > 0
    /\ tmux.exists
    /\ LET r == pollCaptured(sessionObjects[o], o, tmux.pane, now)
       IN /\ sessionObjects' = [sessionObjects EXCEPT ![o] = r.this]
          /\ slackCalls' = IF r.call = NoCall THEN slackCalls ELSE slackCalls \cup {r.call}
    /\ UNCHANGED <<SdkVars, CleanVars, RenderVars, terminalSessions, tmux, creating>>

(* Slack answers a call of updateSlack and updateSlack goes on behind its await *)
SlackAnswers(call, ok) ==
    /\ call \in slackCalls
    /\ LET r == updateSlackDone(sessionObjects[call.object], surface, call, now, ok)
       IN /\ sessionObjects' = [sessionObjects EXCEPT ![call.object] = r.this]
          /\ surface' = r.surface
    /\ slackCalls' = slackCalls \ {call}
    /\ UNCHANGED <<SdkVars, CleanVars, now, currentMessageTs, accumulatedContent, lastRender,
                   terminalSessions, tmux, creating>>

NextTerminal ==
    \/ \E blank \in BOOLEAN : PaneChanges(blank)
    \/ \E o \in 1..Len(sessionObjects) : Poll(o)
    \/ \E call \in slackCalls, ok \in BOOLEAN : SlackAnswers(call, ok)
    \/ \E ts \in 1..Len(surface.messages) : UserDeletes(ts)
    \/ \E t \in Instants : Tick(t)

SpecTerminal == InitTerminal /\ [][NextTerminal]_vars

(* getOrCreateSession (terminal variant) for one user, invoked concurrently: an
   invocation runs up to its next awaited tmux command, tmux runs the commands
   one at a time *)
MaxCreators == 3

Finished == {"returned", "threw"}

(* A new Session object is registered and polls: createSessionObject,
   sessions[userId] = session, session.startPolling() *)
registerNew(objects, legacy) ==
    Append(objects, startPolling(IF legacy THEN createSessionObjectJs ELSE createSessionObject))

(* getOrCreateSession up to its first await, as one of at most maxc invocations
   of the session manager that legacy names *)
GetOrCreateIn(maxc, legacy, forceNew) ==
    /\ Len(creating) < maxc
    /\ IF terminalSessions # NoObject /\ ~forceNew
       THEN /\ creating' = Append(creating, [pc |-> "returned", forceNew |-> forceNew,
                                             session |-> terminalSessions, legacy |-> legacy])
            /\ UNCHANGED sessionObjects
       ELSE IF terminalSessions # NoObject
       THEN /\ creating' = Append(creating, [pc |-> "terminate", forceNew |-> forceNew,
                                             session |-> terminalSessions, legacy |-> legacy])
            /\ sessionObjects' =
                  [sessionObjects EXCEPT ![terminalSessions] =
                      IF legacy THEN terminateJs(@) ELSE terminate(@)]
       ELSE /\ creating' = Append(creating, [pc |-> "has-session", forceNew |-> forceNew,
                                             session |-> NoObject, legacy |-> legacy])
            /\ UNCHANGED sessionObjects
    /\ UNCHANGED <<SdkVars, CleanVars, RenderVars, terminalSessions, tmux, slackCalls>>

(* getOrCreateSession up to its first await *)
GetOrCreate(forceNew) == GetOrCreateIn(MaxCreators, FALSE, forceNew)

(* terminate() behind its kill-session: the map entry is deleted, and
   getOrCreateSession goes on to has-session *)
Terminated(i) ==
    /\ creating[i].pc = "terminate"
    /\ tmux' = [tmux EXCEPT !.exists = FALSE]
    /\ terminalSessions' = NoObject
    /\ creating' = [creating EXCEPT ![i].pc = "has-session", ![i].session = NoObject]
    /\ UNCHANGED <<SdkVars, CleanVars, RenderVars, sessionObjects, slackCalls>>

(* getOrCreateSession behind has-session, which found a session or none:
   kill-session is next (forceNew), or the session is re-attached to, or
   new-session is next. orphanCheck is whether the outcome is looked at *)
afterHasSession(exists, forceNew, orphanCheck) ==
    IF exists /\ orphanCheck
    THEN IF forceNew THEN "kill-session" ELSE "returned"
    ELSE "new-session"

(* has-session has run: an existing tmux session is killed (forceNew) or
   re-attached to; without one, new-session is next *)
TmuxHasSessionWith(i, orphanCheck) ==
    /\ creating[i].pc = "has-session"
    /\ LET pc == afterHasSession(tmux.exists, creating[i].forceNew, orphanCheck)
       IN IF pc = "returned"
          THEN /\ sessionObjects' = registerNew(sessionObjects, creating[i].legacy)
               /\ terminalSessions' = Len(sessionObjects')
               /\ creating' = [creating EXCEPT ![i].pc = pc,
                                               ![i].session = Len(sessionObjects')]
          ELSE /\ creating' = [creating EXCEPT ![i].pc = pc]
               /\ UNCHANGED <<sessionObjects, terminalSessions>>
    /\ UNCHANGED <<SdkVars, CleanVars, RenderVars, tmux, slackCalls>>

(* getOrCreateSession without the orphan check *)
TmuxHasSessionUnchecked(i) == TmuxHasSessionWith(i, FALSE)

TmuxHasSession(i) == TmuxHasSessionWith(i, TRUE)

(* kill-session has run (forceNew): new-session is next, also when it failed *)
TmuxKillSession(i) ==
    /\ creating[i].pc = "kill-session"
    /\ tmux' = [tmux EXCEPT !.exists = FALSE]
    /\ creating' = [creating EXCEPT ![i].pc = "new-session"]
    /\ UNCHANGED <<SdkVars, CleanVars, RenderVars, sessionObjects, terminalSessions, slackCalls>>

(* new-session has run: tmux refuses a duplicate session name, and the error is
   notified (not by the legacy session manager) and thrown; else the program is
   spawned and the new Session object registered *)
TmuxNewSession(i) ==
    /\ creating[i].pc = "new-session"
    /\ IF tmux.exists
       THEN /\ creating' = [creating EXCEPT ![i].pc = "threw"]
            /\ surface' = IF creating[i].legacy THEN surface
                          ELSE notifyError(surface, now, "tmux_error")
            /\ UNCHANGED <<sessionObjects, terminalSessions, tmux>>
       ELSE /\ tmux' = [tmux EXCEPT !.exists = TRUE, !.spawned = @ + 1]
            /\ sessionObjects' = registerNew(sessionObjects, creating[i].legacy)
            /\ terminalSessions' = Len(sessionObjects')
            /\ creating' = [creating EXCEPT ![i].pc = "returned",
                                            ![i].session = Len(sessionObjects')]
            /\ UNCHANGED surface
    /\ UNCHANGED <<SdkVars, CleanVars, now, currentMessageTs, accumulatedContent, lastRender,
                   slackCalls>>

NextCreate ==
    \/ \E forceNew \in BOOLEAN : GetOrCreate(forceNew)
    \/ \E i \in 1..Len(creating) : Terminated(i)
    \/ \E i \in 1..Len(creating) : TmuxHasSession(i)
    \/ \E i \in 1..Len(creating) : TmuxKillSession(i)
    \/ \E i \in 1..Len(creating) : TmuxNewSession(i)

SpecCreate == Init /\ [][NextCreate]_vars

(* The life of terminal sessions: getOrCreateSession is invoked, the poll loops
   tick, tmux carries out their capture-pane calls, the callbacks go on behind
   them, the tmux session dies, and startPolling is called again *)
MaxSessionCalls == 1

MaxCaptures == 2

(* A capture-pane call of a poll tick that tmux has not yet carried out *)
issuedCapture == [done |-> FALSE, ok |-> FALSE, output |-> NoSnapshot]

Remove(seq, k) == SubSeq(seq, 1, k - 1) \o SubSeq(seq, k + 1, Len(seq))

(* The number of session-died notifications on the surface *)
DiedNotices ==
    Cardinality({ts \in 1..Len(surface.messages) : surface.messages[ts].error = "session_died"})

(* Either nothing is registered, and a tmux session of the canonical name may
   exist, or a session is registered and polls its tmux session *)
InitSessionsOf(legacy) ==
    /\ SdkInit
    /\ CleanIdle
    /\ RenderIdle
    /\ CreateIdle
    /\ slackCalls = {}
    /\ \/ /\ sessionObjects = <<>>
          /\ terminalSessions = NoObject
          /\ \E exists \in BOOLEAN :
                tmux = [exists |-> exists, spawned |-> 0, pane |-> NoSnapshot]
       \/ /\ sessionObjects = registerNew(<<>>, legacy)
          /\ terminalSessions = 1
          /\ tmux = [exists |-> TRUE, spawned |-> 1, pane |-> NoSnapshot]

InitSessions == InitSessionsOf(FALSE)

RECURSIVE CapturesInFlight(_)
(* The number of capture-pane calls the first n objects have in flight *)
CapturesInFlight(n) ==
    IF n = 0 THEN 0 ELSE CapturesInFlight(n - 1) + Len(sessionObjects[n].captures)

(* The interval timer of object o fires: the callback issues capture-pane *)
PollTick(o) ==
    /\ sessionObjects[o].timers > 0
    /\ CapturesInFlight(Len(sessionObjects)) < MaxCaptures
    /\ sessionObjects' = [sessionObjects EXCEPT ![o].captures = Append(@, issuedCapture)]
    /\ UNCHANGED <<SdkVars, CleanVars, RenderVars, terminalSessions, tmux, slackCalls, creating>>

(* tmux carries out a capture-pane call: it fails when there is no session *)
TmuxCapturePane(o, k) ==
    /\ ~sessionObjects[o].captures[k].done
    /\ sessionObjects' = [sessionObjects EXCEPT ![o].captures[k] =
                             [done |-> TRUE, ok |-> tmux.exists, output |-> tmux.pane]]
    /\ UNCHANGED <<SdkVars, CleanVars, RenderVars, terminalSessions, tmux, slackCalls, creating>>

(* The catch of the poll callback, for an error that says the session is gone:
   the timer is cleared, the map entry of the user deleted, and (not by the
   legacy session manager) the death notified *)
sessionDied(this, sf, t) ==
    [this |-> clearInterval(this),
     sessions |-> NoObject,
     surface |-> IF this.legacy THEN sf ELSE notifyError(sf, t, "session_died")]

(* The poll callback of object o goes on behind its capture-pane *)
CaptureReturns(o, k) ==
    /\ sessionObjects[o].captures[k].done
    /\ LET capture == sessionObjects[o].captures[k]
           this == [sessionObjects[o] EXCEPT !.captures = Remove(@, k)]
       IN IF capture.ok
          THEN LET r == pollCaptured(this, o, capture.output, now)
               IN /\ sessionObjects' = [sessionObjects EXCEPT ![o] = r.this]
                  /\ slackCalls' = IF r.call = NoCall THEN slackCalls
                                   ELSE slackCalls \cup {r.call}
                  /\ UNCHANGED <<terminalSessions, surface>>
          ELSE LET r == sessionDied(this, surface, now)
               IN /\ sessionObjects' = [sessionObjects EXCEPT ![o] = r.this]
                  /\ terminalSessions' = r.sessions
                  /\ surface' = r.surface
                  /\ UNCHANGED slackCalls
    /\ UNCHANGED <<SdkVars, CleanVars, now, currentMessageTs, accumulatedContent, lastRender,
                   tmux, creating>>

(* session.startPolling() is called on object o *)
StartPolling(o) ==
    /\ sessionObjects' = [sessionObjects EXCEPT ![o] = startPolling(@)]
    /\ UNCHANGED <<SdkVars, CleanVars, RenderVars, terminalSessions, tmux, slackCalls, creating>>

(* The terminal program exits, or the session is killed from outside *)
TmuxDies ==
    /\ tmux.exists
    /\ tmux' = [tmux EXCEPT !.exists = FALSE]
    /\ UNCHANGED <<SdkVars, CleanVars, RenderVars, sessionObjects, terminalSessions,
                   slackCalls, creating>>

NextSessions ==
    \/ \E forceNew \in BOOLEAN : GetOrCreateIn(MaxSessionCalls, FALSE, forceNew)
    \/ \E i \in 1..Len(creating) : Terminated(i)
    \/ \E i \in 1..Len(creating) : TmuxHasSession(i)
    \/ \E i \in 1..Len(creating) : TmuxKillSession(i)
    \/ \E i \in 1..Len(creating) : TmuxNewSession(i)
    \/ \E o \in 1..Len(sessionObjects) : PollTick(o)
    \/ \E o \in 1..Len(sessionObjects) :
          \E k \in 1..Len(sessionObjects[o].captures) : TmuxCapturePane(o, k)
    \/ \E o \in 1..Len(sessionObjects) :
          \E k \in 1..Len(sessionObjects[o].captures) : CaptureReturns(o, k)
    \/ \E o \in 1..Len(sessionObjects) : StartPolling(o)
    \/ TmuxDies

SpecSessions == InitSessions /\ [][NextSessions]_vars

(* The same with the legacy session manager *)
NextLegacy ==
    \/ \E forceNew \in BOOLEAN : GetOrCreateIn(MaxSessionCalls, TRUE, forceNew)
    \/ \E i \in 1..Len(creating) : Terminated(i)
    \/ \E i \in 1..Len(creating) : TmuxHasSession(i)
    \/ \E i \in 1..Len(creating) : TmuxKillSession(i)
    \/ \E i \in 1..Len(creating) : TmuxNewSession(i)
    \/ \E o \in 1..Len(sessionObjects) : PollTick(o)
    \/ \E o \in 1..Len(sessionObjects) :
          \E k \in 1..Len(sessionObjects[o].captures) : TmuxCapturePane(o, k)
    \/ \E o \in 1..Len(sessionObjects) :
          \E k \in 1..Len(sessionObjects[o].captures) : CaptureReturns(o, k)
    \/ \E o \in 1..Len(sessionObjects) : StartPolling(o)
    \/ TmuxDies

InitLegacy == InitSessionsOf(TRUE)

SpecLegacy == InitLegacy /\ [][NextLegacy]_vars

(* The failure of a query (index with sdkSession): messages start queries behind
   a thinking indicator, the streams bring session ids and results, and a query
   ends, or fails with an error that is no AbortError *)
MaxFailureQueries == 2

(* The message handler up to sendMessage's first await: the thinking indicator
   is posted and sendMessage starts the query *)
MsgReceived(c) ==
    /\ Len(queries) < MaxFailureQueries
    /\ surface' = chatPost(surface, now, ThinkingText, TRUE)
    /\ LET st == sendMessage(Store, c, getChannelWorkingDir(c))
       IN SetStore([st EXCEPT !.queries[Len(st.queries)].thinkingTs = Len(surface'.messages)])
    /\ UNCHANGED <<channelWorkingDirs, ApprovalVars, autoApproveTools, CleanVars, now,
                   currentMessageTs, accumulatedContent, lastRender, TerminalVars>>

(* What Slack does with the two calls of onError *)
ErrorApiOutcomes == [deleteThinking : BOOLEAN, post : BOOLEAN]

(* onError: the thinking indicator is deleted, errors of that ignored, and the
   formatted error is posted *)
onError(sf, t, thinkingTs, api) ==
    chatPost(chatDelete(sf, thinkingTs, api.deleteThinking), t, errorText("query_error"),
             api.post)

(* The catch of sendMessage for an error that is no AbortError, and what the
   message handler does behind sendMessage: the session is marked idle, onError
   is called; when rethrows, the error goes on to the handler's own catch, which
   posts it too *)
queryFailedWith(st, q, sf, t, api, rethrows) ==
    LET s1 == onError(sf, t, st.queries[q].thinkingTs, api)
    IN [store |-> markIdle(st, q),
        surface |-> IF rethrows THEN chatPost(s1, t, errorText("query_error"), api.post)
                    ELSE s1]

(* sendMessage with a catch that throws the error on *)
queryFailedRethrowing(st, q, sf, t, api) == queryFailedWith(st, q, sf, t, api, TRUE)

queryFailed(st, q, sf, t, api) == queryFailedWith(st, q, sf, t, api, FALSE)

(* The stream of query q throws an error that is no AbortError *)
QueryFails(q, api) ==
    /\ Running(q)
    /\ LET r == queryFailed(Store, q, surface, now, api)
       IN /\ SetStore(r.store)
          /\ surface' = r.surface
    /\ UNCHANGED <<channelWorkingDirs, ApprovalVars, autoApproveTools, CleanVars, now,
                   currentMessageTs, accumulatedContent, lastRender, TerminalVars>>

(* The formatted error messages on the surface *)
ErrorNotices ==
    Cardinality({ts \in 1..Len(surface.messages) : surface.messages[ts].error = "query_error"})

NextFailure ==
    \/ \E c \in Channels : MsgReceived(c)
    \/ \E q \in 1..Len(queries), kind \in {"init", "assistant", "result"}, u \in Usages :
          StreamMessage(q, kind, u)
    \/ \E q \in 1..Len(queries), how \in {"complete", "abort"} : QueryEnd(q, how)
    \/ \E q \in 1..Len(queries), api \in ErrorApiOutcomes : QueryFails(q, api)
    \/ \E c \in Channels : MsgExit(c)

SpecFailure == Init /\ [][NextFailure]_vars





----------------------------------------------------------------------------
(* The queries of channel c that are in flight in store st and that no abort,
   interrupt or close has reached *)
UnsignalledOn(st, c) ==
    { q \in 1..Len(st.queries) :
        /\ st.queries[q].chan = c
        /\ st.queries[q].status = "running"
        /\ ~Signalled(st.queries[q]) }

(* The query that the sendMessage applied last to store st started *)
LastQuery(st) == st.queries[Len(st.queries)]

(* C1: for every channel, whatever the interleaving of sendMessage, interruptSession,
   closeSession, clearSession and query completions, at most one query of the channel
   is in flight without having been sent a cancellation signal. *)
C1_OneUnsignalledQuery ==
    \A c \in Channels : Cardinality(UnsignalledOn(Store, c)) <= 1

(* C2: when interruptSession is called for a channel that has a running query no
   signal has reached, it reports an interruption and every such query has been
   signalled when it returns. *)
C2_AbortSignalsRunning ==
    \A c \in Channels :
        UnsignalledOn(Store, c) # {} =>
            /\ interruptSessionRet(Store, c)
            /\ UnsignalledOn(interruptSession(Store, c), c) = {}

(* C4: a query that has been aborted, interrupted or closed forwards no further
   message of its stream: neither its init message nor its result is processed while
   it stays in flight. *)
C4_NoForwardAfterCancel ==
    [][\A q \in 1..Len(queries) :
          (Running(q) /\ Signalled(queries[q]) /\ queries'[q].status = "running")
              => /\ queries'[q].init = queries[q].init
                 /\ queries'[q].result = queries[q].result]_vars

(* C5: interruptSession leaves the channel's session registered with the same
   session id and token counters, and the sendMessage that follows starts its query
   on that session with resume equal to the captured session id. *)
C5_InterruptPreserves ==
    \A c \in Channels :
        sessions[c].obj # 0 =>
            LET st == interruptSession(Store, c)
                nxt == sendMessage(st, c, getChannelWorkingDir(c))
            IN /\ st.sessions[c].obj = sessions[c].obj
               /\ st.sessions[c].sessionId = sessions[c].sessionId
               /\ st.sessions[c].tokenUsage = sessions[c].tokenUsage
               /\ LastQuery(nxt).sess = sessions[c].obj
               /\ LastQuery(nxt).resume = sessions[c].sessionId
               /\ nxt.sessions[c].tokenUsage = sessions[c].tokenUsage

(* C5, its case reached: a query was interrupted after its session id and a usage
   were recorded, and a later query of the same session resumes that id. *)
C5_Witness ==
    \E q1 \in 1..Len(queries), q2 \in 1..Len(queries) :
        /\ q1 < q2
        /\ Running(q1) /\ queries[q1].interrupted
        /\ Running(q2) /\ queries[q2].chan = queries[q1].chan
        /\ queries[q2].sess = queries[q1].sess
        /\ queries[q2].resume # 0
        /\ queries[q2].resume = sessions[queries[q2].chan].sessionId
        /\ sessions[queries[q2].chan].tokenUsage # ZeroUsage

(* C6: after exit every query still running for the channel has been sent a cancel
   or close signal, the channel has no session, and the next message starts a query
   without resume on a fresh session with zeroed token counters. *)
C6_ExitClears ==
    \A c \in Channels :
        LET st == exitSession(Store, c)
            nxt == sendMessage(st, c, getChannelWorkingDir(c))
        IN /\ UnsignalledOn(st, c) = {}
           /\ st.sessions[c] = NoSession
           /\ LastQuery(nxt).resume = 0
           /\ LastQuery(nxt).sess = Len(nxt.queries)
           /\ nxt.sessions[c].obj = Len(nxt.queries)
           /\ nxt.sessions[c].tokenUsage = ZeroUsage

----------------------------------------------------------------------------
(* The decisions a button can carry *)
Decisions == {DecTrue, DecFalse} \cup { DecDenied(fb) : fb \in Feedbacks }

PendingIds == DOMAIN pendingApprovals \cup DOMAIN pendingQuestions

(* The request ids a button event can name: those handed out so far, and one that
   never was *)
ProbeIds == 1..(nextRid + 1)

(* C3: the abort command resolves every pending question and every pending approval
   of its channel and removes them, so that no call of the channel's queries stays
   suspended on an interaction. *)
C3_AbortResolvesInteractions ==
    \A c \in Channels :
        LET a == cancelUserApprovals(AStore, c) IN
        /\ \A r \in DOMAIN a.pendingApprovals : a.pendingApprovals[r].channelId # c
        /\ \A r \in DOMAIN a.pendingQuestions : a.pendingQuestions[r].channelId # c
        /\ \A k \in 1..Len(calls) :
              (calls[k].pc = "waiting" /\ queries[calls[k].q].chan = c)
                  => a.calls[k].pc # "waiting"

(* C7: handleApprovalAction and handleQuestionAnswer return false and change nothing
   for a request id that is not pending; for a pending id the first call returns
   true, resolves the waiting promise once with its decision and removes the entry,
   and every further call on the id returns false and changes nothing. *)
C7_ResolvedOnce ==
    \A rid \in ProbeIds :
        /\ \A d \in Decisions :
              IF rid \notin DOMAIN pendingApprovals
              THEN /\ ~handleApprovalActionRet(AStore, rid)
                   /\ handleApprovalAction(AStore, rid, d, "approve") = AStore
              ELSE LET k == WaitingCall(calls, rid)
                       a1 == handleApprovalAction(AStore, rid, d, "approve")
                   IN /\ handleApprovalActionRet(AStore, rid)
                      /\ rid \notin DOMAIN a1.pendingApprovals
                      /\ a1.resolved[rid] = 1
                      /\ k # 0 /\ a1.calls[k].pc = "done" /\ a1.calls[k].decision = d
                      /\ \A d2 \in Decisions :
                            /\ ~handleApprovalActionRet(a1, rid)
                            /\ handleApprovalAction(a1, rid, d2, "deny") = a1
        /\ \A i \in 1..Len(QuestionOptions) :
              IF rid \notin DOMAIN pendingQuestions
              THEN /\ ~handleQuestionAnswerRet(AStore, rid)
                   /\ handleQuestionAnswer(AStore, rid, QuestionOptions[i]) = AStore
              ELSE LET k == WaitingCall(calls, rid)
                       a1 == handleQuestionAnswer(AStore, rid, QuestionOptions[i])
                   IN /\ handleQuestionAnswerRet(AStore, rid)
                      /\ rid \notin DOMAIN a1.pendingQuestions
                      /\ a1.resolved[rid] = 1
                      /\ k # 0
                      /\ a1.calls[k].answers = PutKey(calls[k].answers, calls[k].qs[calls[k].qi + 1],
                                                       QuestionOptions[i])
                      /\ \A j \in 1..Len(QuestionOptions) :
                            /\ ~handleQuestionAnswerRet(a1, rid)
                            /\ handleQuestionAnswer(a1, rid, QuestionOptions[j]) = a1

(* C7, its cases reached: one request is pending, and another one, whose message
   still shows its buttons, has been resolved by a cancellation and is pending no
   more. *)
C7_Witness ==
    \E r1 \in PendingIds, r2 \in RequestIds :
        /\ r2 \notin PendingIds
        /\ buttons[r2] # ""

(* C8: cancelUserApprovals(c) resolves every pending approval of channel c with a
   denial and removes it, and leaves the pending approvals of the other channels
   pending, unresolved and unchanged. *)
C8_CancelFrame ==
    \A c \in Channels :
        LET a == cancelUserApprovals(AStore, c) IN
        \A r \in DOMAIN pendingApprovals :
            LET k == WaitingCall(calls, r) IN
            /\ k # 0
            /\ IF pendingApprovals[r].channelId = c
               THEN /\ r \notin DOMAIN a.pendingApprovals
                    /\ a.resolved[r] = 1
                    /\ a.calls[k].pc = "done"
                    /\ a.calls[k].decision = DecFalse
                    /\ a.calls[k].result.behavior = "deny"
               ELSE /\ r \in DOMAIN a.pendingApprovals
                    /\ a.pendingApprovals[r] = pendingApprovals[r]
                    /\ a.resolved[r] = 0
                    /\ a.calls[k] = calls[k]

(* C8, its case reached: abort has interrupted a query of one channel and cancelled
   an approval, whose message keeps its buttons, while an approval of another
   channel is pending. *)
C8_Witness ==
    \E q \in 1..Len(queries), r1 \in RequestIds, r2 \in DOMAIN pendingApprovals :
        /\ Running(q) /\ queries[q].interrupted
        /\ buttons[r1] \in ApprovalTools /\ r1 \notin DOMAIN pendingApprovals
        /\ pendingApprovals[r2].channelId # queries[q].chan

(* C9: a button decision whose request id is not pending (unknown, resolved or
   cancelled) has no side effect: no variable of the program changes. *)
C9_StaleDecisionNoEffect ==
    [][\A rid \in RequestIds :
          ( /\ rid \notin PendingIds
            /\ \/ ActionApprove(rid)
               \/ ActionDeny(rid)
               \/ \E tool \in ApprovalTools : ActionAlwaysAllow(rid, tool)
               \/ \E fb \in Feedbacks : ViewFeedback(rid, fb)
               \/ \E i \in 1..Len(QuestionOptions) :
                     ActionQuestionAnswer(rid, i) )
          => UNCHANGED vars]_vars

(* The permission results that the handlers applicable in this state return to the
   SDK: canUseTool itself, a post that comes back, a button, a cancellation *)
ApprovalOutcomes ==
    UNION ( { ReturnedOf(canUseTool(AStore, q, tool, <<>>, throws).calls) :
                q \in 1..Len(queries), tool \in ApprovalTools, throws \in BOOLEAN }
            \cup { ReturnedOf(requestApprovalPosted(AStore, k, ok).calls) :
                k \in { j \in 1..Len(calls) : calls[j].pc = "posting" /\ calls[j].tool # AskTool },
                ok \in BOOLEAN }
            \cup { ReturnedOf(onApprove(AStore, rid).calls) : rid \in ProbeIds }
            \cup { ReturnedOf(onDeny(AStore, rid).calls) : rid \in ProbeIds }
            \cup { ReturnedOf(onAlwaysAllow(AStore, rid).calls) : rid \in ProbeIds }
            \cup { ReturnedOf(onFeedback(AStore, rid, fb).calls) :
                rid \in ProbeIds, fb \in Feedbacks }
            \cup { ReturnedOf(cancelUserApprovals(AStore, c).calls) : c \in Channels } )

(* C10: for a tool other than AskUserQuestion the callback returns allow only when
   the tool is auto-approved or Allow / Always Allow was pressed for the pending
   request of that call; deny, deny with feedback, cancellation, a failed post and a
   thrown error return deny, and a given feedback text is carried in the message. *)
C10_AllowOnlyWhenApproved ==
    \A r \in ApprovalOutcomes :
        r.tool # AskTool =>
            /\ r.result.behavior \in {"allow", "deny"}
            /\ r.via \in {"auto", "approve", "always", "deny", "feedback", "cancel",
                          "postFailed", "threw"}
            /\ r.result.behavior = "allow" =>
                  \/ r.via = "auto" /\ r.tool \in autoApproveTools
                  \/ /\ r.via \in {"approve", "always"}
                     /\ r.rid \in DOMAIN pendingApprovals
                     /\ pendingApprovals[r.rid].toolName = r.tool
            /\ r.via \in {"deny", "feedback", "cancel", "postFailed", "threw"} =>
                  r.result.behavior = "deny"
            /\ (r.via = "feedback" /\ r.decision.feedback # "") =>
                  r.result.message = "User denied with feedback: " \o r.decision.feedback

(* C10, its cases reached: Always Allow has put a tool into the auto-approve set,
   and a request that offers the denial with feedback is pending. *)
C10_Witness ==
    /\ autoApproveTools # DefaultAutoApproveTools
    /\ \E r \in DOMAIN pendingApprovals : pendingApprovals[r].toolName = PlanTool

----------------------------------------------------------------------------
(* The call that the canUseTool applied last to store as has made *)
LastCall(as) == as.calls[Len(as.calls)]

(* Store as1 differs from store as by the returned call only: no message was
   posted, no request id used, no entry recorded *)
NothingRequested(as, as1) ==
    /\ as1.pendingApprovals = as.pendingApprovals
    /\ as1.pendingQuestions = as.pendingQuestions
    /\ as1.buttons = as.buttons
    /\ as1.nextRid = as.nextRid

(* C11: a request for a tool of the auto-approve set is allowed by canUseTool
   itself, in the same turn: no chat message is posted and no pending approval is
   recorded. *)
C11_AutoApprovedAtOnce ==
    \A q \in 1..Len(queries), tool \in autoApproveTools \ {AskTool}, throws \in BOOLEAN :
        LET a == canUseTool(AStore, q, tool, <<>>, throws) IN
        /\ LastCall(a).pc = "done"
        /\ LastCall(a).result = Allow
        /\ NothingRequested(AStore, a)

(* C11, its case reached: a query is running and every call made so far has
   returned without any request having been posted. *)
C11_Witness ==
    /\ \E q \in 1..Len(queries) : Running(q) /\ queries[q].init
    /\ Len(calls) >= 1
    /\ \A k \in 1..Len(calls) : calls[k].pc = "done"
    /\ nextRid = 0

----------------------------------------------------------------------------
(* The pending requests whose message carries the Always Allow button of the tool *)
AlwaysAllowable(tool) ==
    { rid \in DOMAIN pendingApprovals : buttons[rid] = tool /\ tool # PlanTool }

(* C12: a click on Always Allow on a pending request for tool T allows that
   request, and from then on every request for T is allowed by canUseTool without
   a pending approval: the click puts T on the auto-approve list, and nothing is
   ever taken off that list. *)
C12_AlwaysAllowLasts ==
    /\ [](\A tool \in ApprovalTools : \A rid \in AlwaysAllowable(tool) :
             LET tools1 == addAutoApprove(autoApproveTools, tool)
                 a1 == onAlwaysAllow(AStore, rid)
             IN /\ \E k \in 1..Len(calls) :
                      /\ calls[k].rid = rid /\ calls[k].pc = "waiting"
                      /\ a1.calls[k].pc = "done" /\ a1.calls[k].result = Allow
                /\ \A q \in 1..Len(queries), throws \in BOOLEAN :
                      LET a2 == canUseToolWith(a1, tools1, q, tool, <<>>, throws) IN
                      /\ LastCall(a2).pc = "done"
                      /\ LastCall(a2).result = Allow
                      /\ NothingRequested(a1, a2))
    /\ [][autoApproveTools \subseteq autoApproveTools']_vars

(* C12, its case reached: Always Allow has put Bash on the list (nothing else
   does), a single request was ever posted and its buttons are gone, and two
   calls have returned while a query is still running to ask for Bash again. *)
C12_Witness ==
    /\ "Bash" \in autoApproveTools
    /\ nextRid = 1 /\ buttons[1] = "" /\ DOMAIN pendingApprovals = {}
    /\ Len(calls) = 2
    /\ \A k \in 1..Len(calls) : calls[k].pc = "done"
    /\ \E q \in 1..Len(queries) : Running(q) /\ queries[q].init

----------------------------------------------------------------------------
(* The user of channel a does something: sends a message or a command, or
   presses a button of a request that was posted to channel a *)
OperationOn(a) ==
    \/ MsgSend(a) \/ MsgAbort(a) \/ MsgExit(a)
    \/ \E d \in Dirs \cup {MissingDir} : MsgCd(a, d)
    \/ \E modeArg \in ModeArgs \cup {""} : MsgMode(a, modeArg)
    \/ \E rid \in approvalsOfChannel(pendingApprovals, a) :
          \/ ActionApprove(rid) \/ ActionDeny(rid)
          \/ \E tool \in ApprovalTools : ActionAlwaysAllow(rid, tool)
          \/ \E fb \in Feedbacks : ViewFeedback(rid, fb)
    \/ \E rid \in approvalsOfChannel(pendingQuestions, a), i \in 1..Len(QuestionOptions) :
          ActionQuestionAnswer(rid, i)

(* C13: channels are independent: an operation on channel a changes neither the
   session, the working directory, the permission mode or the pending
   interactions of another channel b, nor the decision a later tool request of b
   receives. *)
C13_ChannelsIndependent ==
    [][\A a \in Channels : \A b \in Channels \ {a} :
          OperationOn(a) =>
             /\ sessions'[b] = sessions[b]
             /\ channelWorkingDirs'[b] = channelWorkingDirs[b]
             /\ permissionModes'[b] = permissionModes[b]
             /\ approvalsOfChannel(pendingApprovals', b) = approvalsOfChannel(pendingApprovals, b)
             /\ approvalsOfChannel(pendingQuestions', b) = approvalsOfChannel(pendingQuestions, b)
             /\ \A tool \in ApprovalTools :
                   autoApproved(autoApproveTools', tool) = autoApproved(autoApproveTools, tool)]_vars

----------------------------------------------------------------------------
(* The chat users, and the one that ALLOWED_USER_ID names *)
Users == {"U1", "U2"}
ALLOWED_USER == "U1"

(* app.message: `if (ALLOWED_USER && msg.user !== ALLOWED_USER) return;` *)
authorized(user) == ALLOWED_USER = "" \/ user = ALLOWED_USER

(* app.message, the event coming from user in channel c *)
MessageEvent(user, c) ==
    IF authorized(user)
    THEN \/ MsgSend(c) \/ MsgAbort(c) \/ MsgExit(c)
         \/ \E d \in Dirs \cup {MissingDir} : MsgCd(c, d)
         \/ \E modeArg \in ModeArgs \cup {""} : MsgMode(c, modeArg)
    ELSE UNCHANGED vars

(* app.action / app.view, the event coming from user: the handlers read the
   request id out of the button's value and nothing else of the event *)
ButtonEvent(user, rid) ==
    \/ ActionApprove(rid) \/ ActionDeny(rid)
    \/ \E tool \in ApprovalTools : ActionAlwaysAllow(rid, tool)
    \/ \E fb \in Feedbacks : ViewFeedback(rid, fb)
    \/ \E i \in 1..Len(QuestionOptions) : ActionQuestionAnswer(rid, i)

(* C14: with ALLOWED_USER_ID set, an event of any other user (a message, a
   button, the feedback modal, a question's answer) starts no query, resolves no
   pending interaction and changes no session, directory or auto-approve state. *)
C14_OnlyAllowedUserActs ==
    [][\A user \in Users \ {ALLOWED_USER} :
          ( \/ \E c \in Channels : MessageEvent(user, c)
            \/ \E rid \in RequestIds : ButtonEvent(user, rid) )
          => UNCHANGED vars]_vars

----------------------------------------------------------------------------
(* The answers that call k of store as has collected: those it returns to the
   agent once it is done, those of its loop before *)
AnswersOf(as, k) ==
    IF as.calls[k].pc = "done" THEN as.calls[k].result.answers ELSE as.calls[k].answers

(* The values of the options a question is posted with *)
OptionValues == { QuestionOptions[i] : i \in 1..Len(QuestionOptions) }

(* The questions whose message shows its buttons *)
Clickable == { rid \in DOMAIN pendingQuestions : buttons[rid] = AskTool }

(* C15: every answer handed back to the agent for a question is exactly the
   value of one of that question's options, whichever option's button is
   clicked and also when the post of the question fails. *)
C15_AnswerIsAnOption ==
    /\ \A rid \in Clickable, i \in 1..Len(QuestionOptions) :
          LET value == buttonValue(rid, QuestionOptions[i])
              k == WaitingCall(calls, rid)
              a == onQuestionAnswer(AStore, clickedRequest(value), clickedAnswer(value))
          IN k # 0 => \A key \in DOMAIN AnswersOf(a, k) : AnswersOf(a, k)[key] \in OptionValues
    /\ \A k \in 1..Len(calls) :
          (calls[k].pc = "posting" /\ calls[k].tool = AskTool) =>
             LET a == requestUserQuestionPosted(AStore, k, FALSE)
             IN \A key \in DOMAIN AnswersOf(a, k) : AnswersOf(a, k)[key] \in OptionValues

----------------------------------------------------------------------------
(* The AskUserQuestion calls whose question is being posted *)
PostingQuestions == { k \in 1..Len(calls) : calls[k].pc = "posting" /\ calls[k].tool = AskTool }

(* C16: when the post of a question fails, requestUserQuestion returns the value
   of the first option: no pending question is recorded and no buttons are shown,
   the answer is stored under the question's key, and the call goes on (to its
   next question, or to its return) instead of waiting. *)
C16_FailedPostFallsBack ==
    \A k \in PostingQuestions :
        LET a == requestUserQuestionPosted(AStore, k, FALSE)
            key == calls[k].qs[calls[k].qi + 1]
        IN /\ a.pendingQuestions = pendingQuestions
           /\ a.pendingApprovals = pendingApprovals
           /\ a.buttons = buttons
           /\ key \in DOMAIN AnswersOf(a, k)
           /\ AnswersOf(a, k)[key] = QuestionOptions[1]
           /\ a.calls[k].pc # "waiting"
           /\ a.calls[k].qi = calls[k].qi + 1
           /\ a.calls[k].pc = "done" => a.calls[k].result.behavior = "allow"

(* C16, its case reached: a question is being posted, and the failure of its
   post makes the call return. *)
C16_Witness ==
    \E k \in PostingQuestions :
        /\ Running(calls[k].q)
        /\ requestUserQuestionPosted(AStore, k, FALSE).calls[k].pc = "done"

----------------------------------------------------------------------------
(* The AskUserQuestion calls in flight *)
AskingCalls == { k \in 1..Len(calls) : calls[k].tool = AskTool /\ calls[k].pc # "done" }

(* The calls that wait for the answer of question rid *)
WaitingFor(rid) == { k \in AskingCalls : calls[k].rid = rid /\ calls[k].pc = "waiting" }

(* C17: the questions of an AskUserQuestion call are issued one at a time and in
   input order. In every state, each pending question is the current question of
   exactly one call, which waits for it, and a call that has got qi answers holds
   the answers of its first qi questions and is at its question qi + 1. In every
   step, a question that starts being posted is the first one of a new call, or
   the one after the question of that call that has just been answered. *)
C17_OneQuestionAtATime ==
    /\ [](/\ \A rid \in DOMAIN pendingQuestions : Cardinality(WaitingFor(rid)) = 1
          /\ \A k \in AskingCalls :
                /\ calls[k].qi < Len(calls[k].qs)
                /\ calls[k].pc \in {"posting", "waiting"}
                /\ DOMAIN calls[k].answers = { calls[k].qs[j] : j \in 1..calls[k].qi }
                /\ calls[k].pc = "posting" => calls[k].rid \notin DOMAIN pendingQuestions)
    /\ [][\A k \in 1..Len(calls') :
             ( /\ calls'[k].tool = AskTool /\ calls'[k].pc = "posting"
               /\ (k > Len(calls) \/ calls'[k] # calls[k]) )
             => /\ calls'[k].rid = nextRid + 1 /\ nextRid' = nextRid + 1
                /\ IF k > Len(calls)
                   THEN calls'[k].qi = 0
                   ELSE /\ calls[k].tool = AskTool /\ calls[k].pc \in {"posting", "waiting"}
                        /\ calls'[k].qs = calls[k].qs
                        /\ calls'[k].qi = calls[k].qi + 1
                        /\ calls[k].qs[calls'[k].qi] \in DOMAIN calls'[k].answers
                        /\ calls[k].rid \notin DOMAIN pendingQuestions']_vars

(* C17, its case reached: two calls ask at the same time; one of them has got the
   answer of its first question and waits for the answer of its second. *)
C17_Witness ==
    \E k1, k2 \in AskingCalls :
        /\ k1 # k2
        /\ calls[k1].qi = 1 /\ calls[k1].pc = "waiting"
        /\ calls[k1].rid \in DOMAIN pendingQuestions
        /\ calls[k2].pc = "waiting" /\ calls[k2].rid \in DOMAIN pendingQuestions

----------------------------------------------------------------------------
(* The calls that wait for the answer of their last question, its buttons shown *)
AtLastQuestion ==
    { k \in AskingCalls : /\ calls[k].pc = "waiting"
                          /\ calls[k].qi + 1 = Len(calls[k].qs)
                          /\ calls[k].rid \in Clickable }

(* C18: when a call with n questions is allowed, its updated input carries
   exactly one answer per question: n answers, the one just given for the last
   question and, for each earlier question, the one collected for it. *)
C18_OneAnswerPerQuestion ==
    \A k \in AtLastQuestion, i \in 1..Len(QuestionOptions) :
        LET cl == calls[k]
            value == buttonValue(cl.rid, QuestionOptions[i])
            a == onQuestionAnswer(AStore, clickedRequest(value), clickedAnswer(value))
            r == a.calls[k].result
        IN /\ a.calls[k].pc = "done"
           /\ r.behavior = "allow"
           /\ Cardinality(DOMAIN r.answers) = Len(cl.qs)
           /\ r.answers[cl.qs[Len(cl.qs)]] = clickedAnswer(value)
           /\ \A j \in 1..cl.qi : r.answers[cl.qs[j]] = cl.answers[cl.qs[j]]

----------------------------------------------------------------------------
(* C19: a cd to a path that does not exist posts exactly one message, the
   directory-not-found one, and changes nothing: the handler leaves the sessions,
   the queries and the working directories as they are, and no step it takes
   changes any part of the state. *)
C19_CdMissingChangesNothing ==
    \A c \in Channels :
        LET r == onCd(Store, channelWorkingDirs, c, MissingDir)
        IN /\ r.store = Store
           /\ r.dirs = channelWorkingDirs
           /\ r.posts = <<DirectoryNotFound>>
           /\ ~ENABLED (MsgCd(c, MissingDir) /\ vars' # vars)

(* C19, its case reached: a channel has a working directory set and a session
   with a query running in it, which a cd would clear. *)
C19_Witness ==
    \E c \in Channels :
        /\ channelWorkingDirs[c] # NoDir
        /\ sessions[c].obj # 0 /\ sessions[c].isActive
        /\ \E q \in 1..Len(queries) : queries[q].chan = c /\ Running(q) /\ queries[q].init
        /\ clearSession(Store, c) # Store

----------------------------------------------------------------------------
(* C20: a change of a channel's permission mode leaves the queries in flight
   with the mode they started with, and a query started later runs with the mode
   set last. In every state the mode command changes nothing but the channel's
   entry in the mode map; in every step a query that stays in flight keeps its
   mode, and a query that starts gets the mode its channel had at that moment. *)
C20_ModeAppliesToNextQuery ==
    /\ [](\A c \in Channels, modeArg \in ModeArgs \cup {""} :
             LET st == onMode(Store, c, modeArg)
             IN /\ st.queries = queries
                /\ st.sessions = sessions
                /\ \A b \in Channels \ {c} : st.permissionModes[b] = permissionModes[b]
                /\ parseMode(modeArg) # NoMode =>
                      getUserPermissionMode(st, c) = parseMode(modeArg))
    /\ [][/\ \A q \in 1..Len(queries) :
                (Running(q) /\ queries'[q].status = "running")
                => queries'[q].mode = queries[q].mode
          /\ Len(queries') > Len(queries) =>
                LET q == Len(queries')
                IN /\ q = Len(queries) + 1
                   /\ queries'[q].mode = getUserPermissionMode(Store, queries'[q].chan)]_vars

(* C20, its case reached: a channel's mode was changed while a query was in
   flight, which still runs with its old mode, and a query started after the
   change runs with the new one. *)
C20_Witness ==
    \E c \in Channels : \E q1, q2 \in InFlight(Store, c) :
        /\ q1 < q2
        /\ queries[q1].mode = "default"
        /\ queries[q2].mode = "bypassPermissions"
        /\ getUserPermissionMode(Store, c) = "bypassPermissions"

----------------------------------------------------------------------------
(* C21: a cd that changes a channel's working directory while a query is in
   flight does not affect that query: it stays as it was, running in the
   directory it started with, and only a later query gets the new one. *)
C21_CdLeavesQueryInFlight ==
    [][\A c \in Channels, d \in Dirs :
          MsgCd(c, d) =>
             /\ \A q \in InFlight(Store, c) : queries'[q] = queries[q]
             /\ getChannelWorkingDir(c)' = d]_vars
----------------------------------------------------------------------------
(* C28: the cleaning pass is idempotent: for every input, cleaning the already
   cleaned text again returns it unchanged *)
C28_CleaningIdempotent ==
    passes >= 1 => cleaningPass(cleanedOutput) = cleanedOutput

----------------------------------------------------------------------------
(* The lengths of the separator lines of a text, in order: the lines that, white
   space aside, are made of rule characters only *)
separatorLengths(text) ==
    LET isSeparator(l) == trim(l) # <<>> /\ \A i \in 1..Len(trim(l)) : trim(l)[i] = "RULE"
        seps == SelectSeq(splitLines(text), isSeparator)
    IN [i \in 1..Len(seps) |-> Len(trim(seps[i]))]

(* C29: cleanTerminalOutput replaces a separator line longer than the threshold
   by the 24-character separator and keeps shorter separator lines unchanged, so
   no separator line of the output is longer than it was in the input *)
C29_SeparatorsNeverLonger ==
    passes = 1 =>
        LET before == separatorLengths(stripAnsi(rawOutput))
            after == separatorLengths(cleanedOutput)
        IN /\ Len(after) = Len(before)
           /\ \A i \in 1..Len(before) :
                 /\ after[i] <= before[i]
                 /\ after[i] = IF before[i] >= SeparatorMin THEN SeparatorWidth
                                ELSE before[i]

----------------------------------------------------------------------------
(* The last invocation of updateSlackMessage called files.uploadV2 *)
Uploaded == \E i \in 1..Len(lastRender.calls) : lastRender.calls[i] = "upload"

(* ... and did so before it tried to show anything *)
UploadedAtOnce ==
    lastRender.calls \in { <<"upload", "post">>, <<"delete", "upload", "post">> }

(* C22 as stated: updateSlackMessage chooses the file upload exactly when the
   content length is at or above the 3000-character limit, whether or not a
   target message exists; shorter content is never uploaded as a file *)
C22_UploadAtOrAboveLimit ==
    lastRender.calls # <<>> => (Uploaded <=> lastRender.content >= SLACK_TEXT_LIMIT)

(* C22: updateSlackMessage chooses the file upload at once exactly when the
   content length is above the 3000-character limit, whether or not a target
   message exists (the target, if any, is deleted first); content at or below the
   limit is uploaded as a file only after the update of the target failed *)
C22_UploadAboveLimit ==
    lastRender.calls # <<>> =>
        /\ UploadedAtOnce <=> lastRender.content > SLACK_TEXT_LIMIT
        /\ UploadedAtOnce => (lastRender.calls[1] = "delete" <=> lastRender.target # NoTs)
        /\ (Uploaded /\ lastRender.content <= SLACK_TEXT_LIMIT) =>
              /\ lastRender.updateError = "msg_too_long"
              /\ SubSeq(lastRender.calls, 1, 2) = <<"update", "upload">>

C22_Witness ==
    /\ lastRender.content > SLACK_TEXT_LIMIT
    /\ lastRender.target # NoTs
    /\ lastRender.calls = <<"delete", "upload", "post">>
    /\ accumulatedContent = lastRender.content

----------------------------------------------------------------------------
(* C23: when content exceeds the limit, the message left on the surface is the
   truncated preview with the full-response-uploaded marker, and a message
   carries that marker only when the full content was uploaded as a file *)
C23_MarkerMeansUploaded ==
    (lastRender.calls # <<>> /\ lastRender.threw = "" /\ onSurface(surface, lastRender.ret)) =>
        LET msg == surface.messages[lastRender.ret]
        IN /\ lastRender.content > SLACK_TEXT_LIMIT => textOf(msg) = summaryText(lastRender.content)
           /\ msg.marker => lastRender.content \in surface.files

----------------------------------------------------------------------------
(* The target of the response is on the surface and older than the rotation
   threshold *)
TargetExpired ==
    /\ onSurface(surface, currentMessageTs)
    /\ now - surface.messages[currentMessageTs].postedAt > messageRotationMs

(* C25: in the streaming renderer, once the target is older than the rotation
   threshold the next update posts a new message instead of updating it,
   whatever the content *)
C25_StreamingTargetRotates ==
    [][\A content \in ContentLengths, toolUse \in BOOLEAN, api \in ApiOutcomes :
          (StreamText(content, toolUse, api) /\ TargetExpired /\ lastRender'.threw = ""
             /\ lastRender' # lastRender)
          => /\ currentMessageTs' # currentMessageTs
             /\ surface'.messages[currentMessageTs] = surface.messages[currentMessageTs]]_vars

----------------------------------------------------------------------------
(* C26: when the update of the target fails because the message no longer
   exists, updateSlackMessage posts the same content as a new message and does not
   pass the failure on; the new message's ts is returned and is the target of the
   later updates *)
C26_MissingTargetPostsAnew ==
    lastRender.updateError = "message_not_found" =>
        /\ lastRender.calls = <<"update", "post">>
        /\ lastRender.threw \in {"", "post_failed"}
        /\ lastRender.threw = "" =>
              /\ lastRender.ret = Len(surface.messages)
              /\ lastRender.ret # lastRender.target
              /\ currentMessageTs = lastRender.ret
              /\ onSurface(surface, lastRender.ret) =>
                    textOf(surface.messages[lastRender.ret]) = contentText(lastRender.content)

C26_Witness ==
    /\ lastRender.updateError = "message_not_found"
    /\ lastRender.calls = <<"update", "post">>
    /\ lastRender.threw = ""
    /\ lastRender.target # NoTs
    /\ lastRender.ret # lastRender.target
    /\ currentMessageTs = lastRender.ret
    /\ onSurface(surface, currentMessageTs)
    /\ textOf(surface.messages[currentMessageTs]) = contentText(lastRender.content)

----------------------------------------------------------------------------
(* Object o's target is older than the rotation threshold *)
TargetOld(o) ==
    /\ sessionObjects[o].slackTs # NoTs
    /\ now - sessionObjects[o].msgStartTime > messageRotationMs

(* C24: in the terminal renderer, an update attempted more than the rotation
   threshold after the target message was created posts a new message and does
   not update the old target *)
C24_OldTargetIsRotated ==
    [][\A o \in 1..Len(sessionObjects) :
          (Poll(o) /\ TargetOld(o) /\ tmux.pane # sessionObjects[o].lastSnapshot
             /\ ~tmux.pane.blank)
          => /\ sessionObjects'[o].slackTs = NoTs
             /\ \E call \in slackCalls' \ slackCalls :
                   call.kind = "post" /\ call.snapshot = tmux.pane.version
             /\ \A call \in slackCalls' \ slackCalls : call.kind # "update"]_vars

C24_Witness ==
    /\ Len(surface.messages) = 1
    /\ onSurface(surface, 1)
    /\ now - surface.messages[1].postedAt > messageRotationMs
    /\ sessionObjects[1].slackTs = NoTs
    /\ \E call \in slackCalls :
          /\ slackCalls = {call}
          /\ call.kind = "post"
          /\ call.snapshot > surface.messages[1].shown
          /\ call.snapshot = sessionObjects[1].lastSnapshot.version

----------------------------------------------------------------------------
(* Slack carries the call out: the message is posted, or the target is there
   and is rewritten *)
Applied(call, ok) == ok /\ (call.kind = "post" \/ onSurface(surface, call.ts))

(* C27: the updates of a terminal session reach the surface in the order their
   snapshots were captured: none is applied after one that carries a newer
   snapshot *)
C27_UpdatesInCaptureOrder ==
    [][\A call \in slackCalls, ok \in BOOLEAN :
          (SlackAnswers(call, ok) /\ Applied(call, ok))
          => \A ts \in 1..Len(surface.messages) :
                onSurface(surface, ts) => surface.messages[ts].shown <= call.snapshot]_vars

----------------------------------------------------------------------------
(* The Session objects whose poll loop runs *)
Polling == { o \in 1..Len(sessionObjects) : sessionObjects[o].timers > 0 }

(* C30: near-simultaneous first messages for the same key create exactly one
   session: after the getOrCreateSession calls have finished there is one
   registered Session object with one poll loop, exactly one external process
   was spawned, and no call failed *)
C30_OneSessionPerKey ==
    (/\ Len(creating) >= 2
     /\ \A i \in 1..Len(creating) : ~creating[i].forceNew /\ creating[i].pc \in Finished)
    => /\ \A i \in 1..Len(creating) : creating[i].pc = "returned"
       /\ tmux.spawned = 1
       /\ terminalSessions # NoObject
       /\ Polling = {terminalSessions}
       /\ \A i \in 1..Len(creating) : creating[i].session = terminalSessions

----------------------------------------------------------------------------
(* The posts of new messages that object o has in flight *)
PostsInFlight(o) == { call \in slackCalls : call.kind = "post" /\ call.object = o }

(* C40: the terminal renderer keeps at most one live target message per
   session: overlapping updateSlack calls never post two new messages for the
   same block, and while a target exists and has not rotated a change is
   applied by updating that target *)
C40_OneTargetPerSession ==
    /\ [](\A o \in 1..Len(sessionObjects) : Cardinality(PostsInFlight(o)) <= 1)
    /\ [][\A o \in 1..Len(sessionObjects) :
             (Poll(o) /\ sessionObjects[o].slackTs # NoTs /\ ~TargetOld(o)
                /\ tmux.pane # sessionObjects[o].lastSnapshot /\ ~tmux.pane.blank)
             => \E call \in slackCalls' \ slackCalls :
                   call.kind = "update" /\ call.ts = sessionObjects[o].slackTs]_vars


(* The invocation of getOrCreateSession that has just terminated the registered
   session (forceNew) *)
Terminates(forceNew) ==
    /\ forceNew
    /\ terminalSessions # NoObject
    /\ GetOrCreateIn(MaxSessionCalls, FALSE, forceNew)

(* C34: each terminal session has at most one poll timer at any time;
   startPolling on a session that polls changes nothing; terminate() leaves the
   session without a timer, and a session whose timer was cleared never has one
   again, so that no further tick of it fires *)
C34_OnePollTimer ==
    /\ [](\A o \in 1..Len(sessionObjects) : sessionObjects[o].timers <= 1)
    /\ [][/\ \A o \in 1..Len(sessionObjects) :
                /\ (StartPolling(o) /\ sessionObjects[o].timers > 0)
                      => sessionObjects' = sessionObjects
                /\ (sessionObjects[o].pollingInterval /\ sessionObjects[o].timers = 0)
                      => /\ sessionObjects'[o].timers = 0
                         /\ ~PollTick(o)
          /\ \A forceNew \in BOOLEAN :
                Terminates(forceNew) => sessionObjects'[terminalSessions].timers = 0]_vars

(* A forced restart has returned: the session it terminated has its timer
   cleared, the session it registered polls *)
C34_Witness ==
    \E i \in 1..Len(creating) :
        /\ creating[i].forceNew
        /\ creating[i].pc = "returned"
        /\ sessionObjects[creating[i].session].timers = 1
        /\ \E o \in 1..Len(sessionObjects) :
              /\ o # creating[i].session
              /\ sessionObjects[o].pollingInterval
              /\ sessionObjects[o].timers = 0
              /\ sessionObjects[o].captures = <<>>
              /\ DiedNotices = 0


(* C32: when has-session of a non-forced getOrCreateSession finds a tmux session
   of the canonical name and no Session is registered, the invocation returns a
   newly registered Session object that polls, new-session is not issued and no
   process is spawned *)
C32_OrphanIsReattached ==
    [][\A i \in 1..Len(creating) :
          (/\ TmuxHasSession(i)
           /\ tmux.exists
           /\ ~creating[i].forceNew
           /\ terminalSessions = NoObject)
          => /\ creating'[i].pc = "returned"
             /\ Len(sessionObjects') = Len(sessionObjects) + 1
             /\ terminalSessions' = Len(sessionObjects')
             /\ creating'[i].session = terminalSessions'
             /\ sessionObjects'[terminalSessions'].timers = 1
             /\ tmux'.spawned = tmux.spawned]_vars

(* A non-forced invocation has returned a polling wrapper around a tmux session
   that the program did not spawn *)
C32_Witness ==
    \E i \in 1..Len(creating) :
        /\ ~creating[i].forceNew
        /\ creating[i].pc = "returned"
        /\ tmux.exists
        /\ tmux.spawned = 0
        /\ terminalSessions = creating[i].session
        /\ sessionObjects[terminalSessions].timers = 1


(* C33: when a capture-pane of a session's poll loop fails because the tmux
   session is gone, the session's timer is cleared, the user's map entry is
   deleted and a session-died notification is posted; and no more session-died
   notifications are ever on the surface than sessions were registered, that is
   one per dead session *)
C33_DeathNotifiedOnce ==
    /\ [](DiedNotices <= Len(sessionObjects))
    /\ [][\A o \in 1..Len(sessionObjects) :
             \A k \in 1..Len(sessionObjects[o].captures) :
                (CaptureReturns(o, k) /\ ~sessionObjects[o].captures[k].ok)
                => /\ sessionObjects'[o].timers = 0
                   /\ terminalSessions' = NoObject
                   /\ DiedNotices' = DiedNotices + 1]_vars


(* C31: the session that a forced getOrCreateSession has returned stays the
   registered one for as long as its poll timer runs (it was neither terminated
   nor found dead), and a poll callback of an object that is not the registered
   one neither changes the registration nor posts a session-died notification *)
C31_FreshSessionStaysRegistered ==
    /\ [](\A i \in 1..Len(creating) :
             (/\ creating[i].forceNew
              /\ creating[i].pc = "returned"
              /\ sessionObjects[creating[i].session].timers > 0)
             => terminalSessions = creating[i].session)
    /\ [][\A o \in 1..Len(sessionObjects) :
             \A k \in 1..Len(sessionObjects[o].captures) :
                (CaptureReturns(o, k) /\ terminalSessions # NoObject /\ o # terminalSessions)
                => /\ terminalSessions' = terminalSessions
                   /\ DiedNotices' = DiedNotices]_vars


(* The forced restart of the legacy session manager that has just terminated
   the registered session *)
TerminatesJs(forceNew) ==
    /\ forceNew
    /\ terminalSessions # NoObject
    /\ GetOrCreateIn(MaxSessionCalls, TRUE, forceNew)

(* C37: in the legacy session manager terminate() leaves the session object
   without a poll timer, and once a forced restart has returned, the session it
   returned is the only object whose poll loop runs *)
C37_LegacyTerminateStopsLoop ==
    /\ [](\A i \in 1..Len(creating) :
             (creating[i].legacy /\ creating[i].forceNew /\ creating[i].pc = "returned")
             => Polling \subseteq {creating[i].session})
    /\ [][\A forceNew \in BOOLEAN :
             TerminatesJs(forceNew) => sessionObjects'[terminalSessions].timers = 0]_vars


(* C35: no error of a render attempt leaves onMessage: whatever call failed
   (the post, the update, the deletion or the upload), the stream of the query
   is still being consumed afterwards *)
C35_RenderFailureContained == Consuming

(* A render attempt has failed in its last call, and later content of the same
   response may still arrive *)
C35_Witness ==
    /\ lastRender.threw # ""
    /\ lastRender.escaped = ""
    /\ accumulatedContent = lastRender.content
    /\ accumulatedContent < 3001


(* C36: when a query fails with an error that is no AbortError, one formatted
   error message is posted (none only when Slack refuses that post) and nothing
   else is added to the channel; the session the query belongs to is marked
   idle and keeps its session id, and the next sendMessage on the channel
   resumes that id *)
C36_FailureReportedOnce ==
    [][\A q \in 1..Len(queries), api \in ErrorApiOutcomes :
          QueryFails(q, api) =>
             LET c == queries[q].chan
                 posted == IF api.post THEN 1 ELSE 0
                 next == sendMessage(Store', c, getChannelWorkingDir(c))
             IN /\ ErrorNotices' = ErrorNotices + posted
                /\ Len(surface'.messages) = Len(surface.messages) + posted
                /\ queries'[q].status = "done"
                /\ Registered(Store, q) =>
                      /\ ~sessions'[c].isActive
                      /\ sessions'[c].sessionId = sessions[c].sessionId
                      /\ next.queries[Len(next.queries)].resume = sessions[c].sessionId]_vars

(* A query that had captured its session id has failed, its error is the one
   error message on the surface, and the next message resumes the session *)
C36_Witness ==
    /\ Len(queries) = 2
    /\ ErrorNotices = 1
    /\ queries[1].status = "done"
    /\ Running(2)
    /\ queries[2].chan = queries[1].chan
    /\ queries[2].resume # 0
    /\ queries[2].resume = sessions[queries[2].chan].sessionId
    /\ ~onSurface(surface, 1)


(* The calls that wait for the decision or answer of request rid *)
AwaitedBy(rid) == { k \in 1..Len(calls) : calls[k].pc = "waiting" /\ calls[k].rid = rid }

(* C38: every pending approval and every pending question is awaited by a call
   of a query that is running and has not been signalled (superseded, aborted,
   closed or cleared) *)
C38_PendingBelongsToLiveQuery ==
    \A rid \in DOMAIN pendingApprovals \cup DOMAIN pendingQuestions :
        \E k \in AwaitedBy(rid) :
            Running(calls[k].q) /\ ~Signalled(queries[calls[k].q])

(* C39: a query that abort or exit has reached (interrupt() or close() was
   called on it, and the channel's approvals were cancelled in the same handler)
   has no approval waiting for a decision *)
C39_NoApprovalAfterCancel ==
    \A k \in 1..Len(calls) :
        (calls[k].tool # AskTool /\ calls[k].pc = "waiting")
        => LET qr == queries[calls[k].q] IN ~(qr.interrupted \/ qr.closed)

====
